---- MODULE Spec2Model ----
(***************************************************************************)
(* G13 trading bot: the orchestration engine.                              *)
(*                                                                         *)
(*   Part 1  Broker Gate, trading-loop worker, HTTP handlers, session      *)
(*           (backend/actions/mt5/connect.py, backend/core/trading_loop.py,*)
(*            backend/api/routes_*.py, backend/actions/session/*.py)       *)
(*   Part 2  Position Manager and Strategist rewrites of a live SL/TP      *)
(*           (trading_loop.py, strategy/ia_adjust.py, mt5/modify_trade.py) *)
(*   Part 3  Strategist adjustments of tp_pct / sl_pct                     *)
(*           (backend/strategy/ia_adjust.py)                               *)
(*   Part 4  session tickets and closed-trades ledger                      *)
(*           (backend/actions/sync/sync_closed.py, session_tickets.py)     *)
(*   Part 5  Risk Guard (TradingLoop._check_global_risk)                   *)
(*   Part 6  session lifecycle and the loop's worker threads               *)
(*           (backend/actions/session/start.py, end.py, trading_loop.py)   *)
(*   Part 7  one agent's evaluation: can_trade, the decider, the order     *)
(*           (backend/agents/base.py, fibo_agent.py, ai_decision.py)       *)
(*   Part 8  the writers of config/agents.json                             *)
(*           (IAdjust._save_agent_config, toggle_agent, update_agent_config)*)
(*   Part 9  the volume of an order (TradingLoop._execute_trade)           *)
(*   Part 10 open_positions/<agent>.json and the Strategist's edits        *)
(*           (sync/sync_positions.py, IAdjust._build_mt5_modifications)    *)
(*   Part 11 _execute_trade and session_tickets.json                       *)
(***************************************************************************)
EXTENDS Integers, Sequences, FiniteSets, TLC

\* ------------------------------------------------------------------ bounds
NumAgents == 2          \* agents walked by the loop (fibo1, fibo2, ...)
NumPos == 1             \* broker position ids in play
NumTickets == 2         \* tickets the broker issues to the agent
MaxOps == 2             \* adjustment calls followed after the operator saved a config
MaxSessions == 2        \* session records created by Start
MaxWorkers == 2         \* worker threads TradingLoop.start() creates
MaxClock == 3           \* clock readings of the agent (and the longest cooldown)
MaxOpen == 2            \* positions in the agent's open_positions file (and max_positions)
MaxRecords == 2         \* decision records and session tickets of the agent
MaxVolume == 60         \* raw volumes and symbol limits, in hundredths of a lot
NumBrokerPos == 2       \* position slots of the shared broker account (Part 10)
NumOrders == 3          \* ticket numbers the broker hands out (Part 11)

Agents == 1..NumAgents
BrokerPos == 1..NumBrokerPos
Orders == 1..NumOrders
PosIds == 1..NumPos
Threads == {"loop", "http"}

\* ------------------------------------------------------------------ state
VARIABLES
    mt5_lock,      \* threading.Lock of mt5_lock.py: TRUE = locked (it has no owner)
    mt5_login,     \* account the process-wide MT5 session is logged in to, 0 = shut down
    session,       \* session.json: "none" (no file), "active", "stopped"
    pc,            \* position of each thread in its operation
    agent,         \* agent the worker's current cycle works for (0 = none)
    holds,         \* thread is between its own successful connect_mt5 and its own disconnect_mt5
    releases,      \* disconnect_mt5 calls made by the thread since its last successful connect_mt5
    positions,     \* broker positions: id -> [acct, tag]; acct = 0 when not open, tag = 0 when untagged
    toClose,       \* _emergency_close_all: the agent_positions still to be closed
    attempted,     \* _emergency_close_all: tickets handed to close_trade in this cycle
    owned,         \* tagged positions the agent's account held when the emergency read ran
    verdict,       \* _check_global_risk result of the worker's current cycle
    can_trade,     \* local can_trade of _full_agent_cycle
    market_data,   \* local market_data of _full_agent_cycle: "none", "ok", "fail"
    cycleLog,      \* steps the worker has run in the current agent cycle
    last_conn      \* the last connect_mt5 call: caller, outcome, lock and session around it

gateVars == <<mt5_lock, mt5_login, session, pc, agent, holds, releases, positions,
              toClose, attempted, owned, verdict, can_trade, market_data, cycleLog, last_conn>>

\* Part 5: the Risk Guard's memory (TradingLoop._start_balances, ...)
VARIABLES
    start_balances,      \* _start_balances: agent -> reference balance, 0 = no entry
    day_start_balances,  \* _day_start_balances: agent -> balance at day start, 0 = no entry
    risk_blocked,        \* _risk_blocked: agents with a logged blocking reason
    day_known,           \* _current_day is set (it is None until the first check)
    risk_in,             \* inputs of the last _check_global_risk call
    risk_out,            \* what the last call returned: "none", "ok", "block", "emergency", "raise"
    cycle_out,           \* what the cycle of the last call went on to do
    emerg_seen           \* agents an emergency close has run for since the balances were taken

riskVars == <<start_balances, day_start_balances, risk_blocked, day_known, risk_in, risk_out,
              cycle_out, emerg_seen>>

\* Part 4: session tickets and the closed-trades ledger of one agent
VARIABLES
    tickets,       \* session_tickets.json: ticket -> "none" (no entry), "open", "closed"
    issued,        \* tickets the broker has issued so far (they are never reused)
    deals,         \* broker history: tickets with a closing deal, in closing-time order
    closed_file,   \* closed_trades/<agent>.json: the position_id of each record, in file order
    s_pc,          \* position of each thread inside sync_closed_trades / _reset_all_data
    s_existing,    \* a run's existing_trades list (position_id of each record)
    s_seen,        \* a run's existing_tickets set
    s_todo,        \* a run's session_tickets still to be looked at
    wrote,         \* threads whose run has written the ledger file
    quiet          \* whose run wrote the file with nothing changed since, and how
                   \* many of its runs in a row did (2: two or more)

syncVars == <<tickets, issued, deals, closed_file, s_pc, s_existing, s_seen, s_todo, wrote,
             quiet>>

\* Part 2: one position of one agent, its stop-loss at the broker and on file
VARIABLES
    p_type,        \* "BUY" or "SELL" ("none" before the first position)
    p_entry,       \* price_open, in cents
    p_live,        \* the position is open at the broker
    price,         \* price_current at the broker, in cents
    b_sl,          \* SL the broker holds, in cents (0 = no SL)
    b_tp,          \* TP the broker holds, in cents (0 = no TP)
    f_pos,         \* open_positions/<agent>.json: [live, sl, tp] as last synced
    m_pos,         \* the Position Manager's read_positions snapshot: [price, sl]
    sl_pc,         \* where the worker is: "cycle", "read", "write", "apply"
    mods,          \* the Strategist's pending mt5 modification: [sl, tp]
    last_req       \* the last TRADE_ACTION_SLTP request sent: who, SL read, SL before, SL after

slVars == <<p_type, p_entry, p_live, price, b_sl, b_tp, f_pos, m_pos, sl_pc, mods, last_req>>

\* Part 3: one agent's tpsl_config and the adjustment log
VARIABLES
    cfg_tp,        \* tpsl_config.tp_pct, in thousandths of a percent
    cfg_sl,        \* tpsl_config.sl_pct, in thousandths of a percent
    last_dir,      \* direction of the newest logged change of each field in the lock window
    recent_adj,    \* _last_adjustment_time is less than MIN_ADJUSTMENT_INTERVAL old
    hour_count,    \* log entries of the agent in the last hour
    ops,           \* adjustment calls since the operator last saved the config
    last_op,       \* path of the last mutation that started from a valid config, or "none"
    ia_adjust_enabled, \* agents.json: the agent's ia_adjust_enabled
    adj_pc,        \* per thread: "passed" between _can_adjust and the end of the call
    rate_broken,   \* the last call committed inside the 15 min or over the hourly limit
    log_rev        \* the last call logged a change opposite to one of the field's in the lock window

adjVars == <<cfg_tp, cfg_sl, last_dir, recent_adj, hour_count, ops, last_op, ia_adjust_enabled, adj_pc,
            rate_broken, log_rev>>

\* Part 6: session.json, the per-session data, history/ and the loop's threads
VARIABLES
    sess,          \* session.json: [id, start_time, balance_start, status]; id 0 = no file
    created,       \* session records written so far (the next id and start_time)
    ledger,        \* the session has recorded a closed trade, a decision or a ticket
    archives,      \* ids of the sessions with a report in history/
    is_running,    \* TradingLoop.is_running
    workers,       \* per thread created by start(): "none", "check", "tick", "sleep",
                   \* "caught" (sleeping in the except clause), "exited"
    raised,        \* per thread: an exception came out of one of its ticks
    s_last         \* the last lifecycle call: [op, bal, ok, flip]

sessVars == <<sess, created, ledger, archives, is_running, workers, raised, s_last>>

\* Part 7: one agent object, its open_positions file, decisions.json and its tickets
VARIABLES
    now,              \* datetime.now()
    last_trade_time,  \* BaseAgent.last_trade_time; -1 = None
    open_count,       \* positions of the agent in open_positions/<agent>.json
    broker_open,      \* open positions at the broker that the loop opened for the agent
    e_pc,             \* "idle", "synced", "decide" (call_ai pending), "exec" (signal returned)
    n_decisions,      \* records in decisions.json
    last_decision,    \* the record at the head of decisions.json
    n_tickets,        \* session tickets of the agent
    e_last            \* the last step: [op, enabled, max_positions, cooldown, can, out, flip]

evalVars == <<now, last_trade_time, open_count, broker_open, e_pc, n_decisions,
              last_decision, n_tickets, e_last>>

\* Part 8: config/agents.json and its two writers
VARIABLES
    agents_json,   \* the file: per agent [enabled, tp_pct]
    g_pc,          \* the Strategist's run: "idle", "loaded", "saving"
    g_agent,       \* the agent it adjusts
    g_config,      \* its copy of the agent's config (_load_agent_config)
    g_all,         \* all_configs read by _save_agent_config
    h_pc,          \* the HTTP handler: "idle", "read"
    h_req,         \* its request: [agent, enabled]
    h_all,         \* configs read by the handler
    lost           \* a write put back a value another writer had replaced

confVars == <<agents_json, g_pc, g_agent, g_config, g_all, h_pc, h_req, h_all, lost>>

\* Part 9: the symbol's volume settings and the last order's volume
VARIABLES
    v_sym,         \* mt5.symbol_info(symbol): [step, min, max]; step 0 = no symbol info
    v_raw,         \* config position_size_pct of the last order
    v_sent         \* the volume handed to open_trade; -1 = no order yet

VARIABLES
    x_pos,         \* broker positions of the account: [open, tag]
    x_file,        \* open_positions/<agent>.json: the tickets it lists
    x_mods         \* the edits of the last rewrite: [agent, tickets, flip]

VARIABLES
    q_pc,          \* _execute_trade: "idle", "connected", "opened", "closing"
    q_lock,        \* mt5_lock taken by _execute_trade
    q_agent,       \* agent of the execution; 0 = none
    q_ticket,      \* ticket open_trade returned; 0 = none
    q_broker,      \* per ticket: agent of the loop's open position; 0 = not open
    q_tickets      \* session_tickets.json: per ticket [status, agent]

volVars == <<v_sym, v_raw, v_sent>>

modVars == <<x_pos, x_file, x_mods>>

tickVars == <<q_pc, q_lock, q_agent, q_ticket, q_broker, q_tickets>>

vars == <<gateVars, slVars, adjVars, riskVars, syncVars, sessVars, evalVars, confVars,
          volVars, modVars, tickVars>>

nonGate == <<slVars, adjVars, riskVars, syncVars, sessVars, evalVars, confVars, volVars, modVars, tickVars>>

nonSL == <<gateVars, adjVars, riskVars, syncVars, sessVars, evalVars, confVars, volVars, modVars, tickVars>>

nonAdjust == <<gateVars, slVars, riskVars, syncVars, sessVars, evalVars, confVars, volVars, modVars, tickVars>>

nonRisk == <<gateVars, slVars, adjVars, syncVars, sessVars, evalVars, confVars, volVars, modVars, tickVars>>

nonSync == <<gateVars, slVars, adjVars, riskVars, sessVars, evalVars, confVars, volVars, modVars, tickVars>>

nonSession == <<gateVars, slVars, adjVars, riskVars, syncVars, evalVars, confVars, volVars, modVars, tickVars>>

nonEval == <<gateVars, slVars, adjVars, riskVars, syncVars, sessVars, confVars, volVars, modVars, tickVars>>

nonConf == <<gateVars, slVars, adjVars, riskVars, syncVars, sessVars, evalVars, volVars, modVars, tickVars>>

nonVol == <<gateVars, slVars, adjVars, riskVars, syncVars, sessVars, evalVars, confVars, modVars, tickVars>>

nonMods == <<gateVars, slVars, adjVars, riskVars, syncVars, sessVars, evalVars, confVars, volVars, tickVars>>

nonTickets == <<gateVars, slVars, adjVars, riskVars, syncVars, sessVars, evalVars, confVars, volVars, modVars>>

NoPos == [acct |-> 0, tag |-> 0]

NoConn == [by |-> "none", o |-> "none", lock_before |-> FALSE, lock_after |-> FALSE,
           kept |-> TRUE, owners |-> {}]

\* f-string test  f"G13_{agent_id}" in p.get("comment", "")
HasTag(p, a) == positions[p].tag = a

\* what mt5.positions_get() returns: the positions of the logged-in account
PositionsGet == IF mt5_login = 0 THEN {} ELSE {p \in PosIds : positions[p].acct = mt5_login}

\* ---------------------------------------------------------------- the gate
\* connect_mt5(agent_id): outcome of one call, given the lock.
\*   "timeout"    the lock stayed taken for MT5_LOCK_TIMEOUT seconds
\*   "config"     agent unknown or disabled: lock released, session untouched
\*   "init"       mt5.initialize failed after mt5.shutdown(): lock released
\*   "login"      no account info or wrong login: mt5.shutdown(), lock released
\*   "exception"  an exception in the try block (here: raised once mt5.shutdown()
\*                has run): lock released
\*   "ok"         lock kept by the caller, session logged in to the agent's account
ConnectOutcomes == {"timeout", "config", "init", "login", "exception", "ok"}

ConnectPossible(o) == IF o = "timeout" THEN mt5_lock ELSE ~mt5_lock

\* a failure path that returns without its mt5_lock.release()
ConnectLock_Leak(o) == IF o = "timeout" THEN mt5_lock ELSE TRUE

ConnectLock(o) == IF o = "ok" THEN TRUE ELSE mt5_lock

ConnectLogin(o, a) ==
    CASE o = "ok" -> a
      [] o \in {"init", "login", "exception"} -> 0
      [] OTHER -> mt5_login

Inc2(n) == IF n >= 2 THEN 2 ELSE n + 1

\* connect_mt5 called by thread t for agent a with outcome o
Connect(t, a, o) ==
    /\ ConnectPossible(o)
    /\ mt5_lock' = ConnectLock(o)
    /\ mt5_login' = ConnectLogin(o, a)
    /\ holds' = IF o = "ok" THEN [holds EXCEPT ![t] = TRUE] ELSE holds
    /\ releases' = IF o = "ok" THEN [releases EXCEPT ![t] = 0] ELSE releases
    /\ last_conn' = [by |-> t, o |-> o, lock_before |-> mt5_lock, lock_after |-> ConnectLock(o),
                     kept |-> (ConnectLogin(o, a) = mt5_login),
                     owners |-> {u \in Threads : holds[u]} \ {t}]

\* the release left out of disconnect_mt5: the lock stays as it was
DisconnectLock_Kept == mt5_lock

\* disconnect_mt5(): mt5.shutdown(), then mt5_lock.release() with RuntimeError
\* (lock not taken) swallowed.  Lock.release() does not look at the caller.
DisconnectLock == FALSE

Disconnect(t) ==
    /\ mt5_login' = 0
    /\ mt5_lock' = DisconnectLock
    /\ holds' = [holds EXCEPT ![t] = FALSE]
    /\ releases' = [releases EXCEPT ![t] = Inc2(releases[t])]
    /\ UNCHANGED last_conn

Log(e) == cycleLog' = Append(cycleLog, e)

\* ------------------------------------------------------- trading-loop worker
LoopLocals == <<toClose, attempted, owned, verdict, can_trade, market_data>>

\* the worker moves on to the next agent of _process_all_agents
NextAgent ==
    /\ pc' = [pc EXCEPT !["loop"] = "agent"]
    /\ agent' = [agent EXCEPT !["loop"] = agent["loop"] + 1]
    /\ toClose' = <<>>
    /\ attempted' = {}
    /\ owned' = {}
    /\ verdict' = "none"
    /\ can_trade' = FALSE
    /\ market_data' = "none"
    /\ cycleLog' = <<>>

Goto(t, l) == pc' = [pc EXCEPT ![t] = l]

\* the session check left out: every tick runs
SessionAllowsTick_Always == TRUE

\* _run_loop: the session check that guards a tick
SessionAllowsTick == session = "active"

\* _run_loop, no active session: sleep LOOP_INTERVAL and test again
L_WaitSession ==
    /\ pc["loop"] = "idle"
    /\ ~SessionAllowsTick
    /\ UNCHANGED vars

\* _run_loop, active session: start _process_all_agents with the first agent
L_TickStart ==
    /\ pc["loop"] = "idle"
    /\ SessionAllowsTick
    /\ Goto("loop", "agent")
    /\ agent' = [agent EXCEPT !["loop"] = 1]
    /\ cycleLog' = <<>>
    /\ UNCHANGED <<last_conn, mt5_lock, mt5_login, session, holds, releases, positions, LoopLocals>>
    /\ UNCHANGED nonGate

\* _process_all_agents: agent disabled in agents.json -> continue
L_SkipDisabled ==
    /\ pc["loop"] = "agent"
    /\ agent["loop"] \in Agents
    /\ NextAgent
    /\ UNCHANGED <<last_conn, mt5_lock, mt5_login, session, holds, releases, positions>>
    /\ UNCHANGED nonGate

\* _full_agent_cycle phase 1: connect_mt5(agent_id)
L_Connect(o) ==
    /\ pc["loop"] = "agent"
    /\ agent["loop"] \in Agents
    /\ Connect("loop", agent["loop"], o)
    /\ IF o = "ok"
         THEN /\ Goto("loop", "risk")
              /\ Log("connect")
              /\ UNCHANGED <<agent, LoopLocals>>
         ELSE NextAgent
    /\ UNCHANGED <<session, positions>>
    /\ UNCHANGED nonGate

\* _check_global_risk verdict for the cycle (the function itself: Part 5)
L_Risk(v) ==
    /\ pc["loop"] = "risk"
    /\ verdict' = v
    /\ Goto("loop", IF v = "emergency" THEN "emerg_read" ELSE "sync_pos")
    /\ Log("risk")
    /\ UNCHANGED <<last_conn, mt5_lock, mt5_login, session, agent, holds, releases, positions,
                   toClose, attempted, owned, can_trade, market_data>>
    /\ UNCHANGED nonGate

\* an exception inside the phase-1 try block (risk check, can_trade): caught at
\* `except Exception` of _full_agent_cycle, which falls through to disconnect_mt5()
L_Phase1Raise ==
    /\ pc["loop"] \in {"risk", "eligible"}
    /\ Goto("loop", "disc1")
    /\ Log("raise")
    /\ UNCHANGED <<last_conn, mt5_lock, mt5_login, session, agent, holds, releases, positions, LoopLocals>>
    /\ UNCHANGED nonGate

\* agent_positions of _emergency_close_all / _manage_positions_connected, by ticket
RECURSIVE SeqOfSet(_)
SeqOfSet(S) ==
    IF S = {} THEN <<>>
    ELSE LET m == CHOOSE x \in S : \A y \in S : x <= y
         IN <<m>> \o SeqOfSet(S \ {m})

AgentPositions(a) == {p \in PositionsGet : HasTag(p, a)}

\* _emergency_close_all: read_positions, keep the positions tagged G13_<agent>
L_EmergRead ==
    /\ pc["loop"] = "emerg_read"
    /\ toClose' = SeqOfSet(AgentPositions(agent["loop"]))
    /\ owned' = {p \in PosIds : positions[p].acct = agent["loop"] /\ HasTag(p, agent["loop"])}
    /\ Goto("loop", IF AgentPositions(agent["loop"]) = {} THEN "sync_pos" ELSE "emerg_close")
    /\ Log("read")
    /\ UNCHANGED <<last_conn, mt5_lock, mt5_login, session, agent, holds, releases, positions,
                   attempted, verdict, can_trade, market_data>>
    /\ UNCHANGED nonGate

\* close_trade(agent_id, ticket): succeeds only on a position the session can see
CloseTrade(p, ok) ==
    IF ok /\ p \in PositionsGet THEN [positions EXCEPT ![p] = NoPos] ELSE positions

\* after a close attempt the for-loop goes on with the remaining tickets
AfterClose(rest) == IF rest = <<>> THEN "sync_pos" ELSE "emerg_close"

\* _emergency_close_all: one turn of the for-loop
L_EmergClose(ok) ==
    /\ pc["loop"] = "emerg_close"
    /\ toClose # <<>>
    /\ positions' = CloseTrade(Head(toClose), ok)
    /\ attempted' = attempted \cup {Head(toClose)}
    /\ toClose' = Tail(toClose)
    /\ Goto("loop", AfterClose(Tail(toClose)))
    /\ Log("close")
    /\ UNCHANGED <<last_conn, mt5_lock, mt5_login, session, agent, holds, releases, owned,
                   verdict, can_trade, market_data>>
    /\ UNCHANGED nonGate

\* sync_positions(agent_id)
L_SyncPositions ==
    /\ pc["loop"] = "sync_pos"
    /\ Goto("loop", "sync_closed")
    /\ Log("sync_positions")
    /\ UNCHANGED <<last_conn, mt5_lock, mt5_login, session, agent, holds, releases, positions, LoopLocals>>
    /\ UNCHANGED nonGate

\* position management run only on a verdict that allows trading
AfterSync_BlockSkips(v) == IF v = "ok" THEN "manage" ELSE "disc_e"

\* where the cycle goes after sync_closed_trades
AfterSync(v) == IF v = "emergency" THEN "disc_e" ELSE "manage"

\* sync_closed_trades(agent_id)
L_SyncClosed ==
    /\ pc["loop"] = "sync_closed"
    /\ Goto("loop", AfterSync(verdict))
    /\ Log("sync_closed")
    /\ UNCHANGED <<last_conn, mt5_lock, mt5_login, session, agent, holds, releases, positions, LoopLocals>>
    /\ UNCHANGED nonGate

\* emergency branch: disconnect_mt5(); return
L_EmergDisconnect ==
    /\ pc["loop"] = "disc_e"
    /\ Disconnect("loop")
    /\ NextAgent
    /\ UNCHANGED <<session, positions>>
    /\ UNCHANGED nonGate

\* _manage_positions_connected (the SL rules themselves: Part 2)
L_Manage ==
    /\ pc["loop"] = "manage"
    /\ Goto("loop", "eligible")
    /\ Log("manage")
    /\ UNCHANGED <<last_conn, mt5_lock, mt5_login, session, agent, holds, releases, positions, LoopLocals>>
    /\ UNCHANGED nonGate

\* can_trade = risk_allows_trading and agent.can_trade() and _check_killzone()
L_Eligible(b) ==
    /\ pc["loop"] = "eligible"
    /\ can_trade' = (verdict = "ok" /\ b)
    /\ Goto("loop", IF verdict = "ok" /\ b THEN "market" ELSE "disc1")
    /\ Log("eligible")
    /\ UNCHANGED <<last_conn, mt5_lock, mt5_login, session, agent, holds, releases, positions,
                   toClose, attempted, owned, verdict, market_data>>
    /\ UNCHANGED nonGate

\* _get_market_data_connected
L_Market(ok) ==
    /\ pc["loop"] = "market"
    /\ market_data' = IF ok THEN "ok" ELSE "fail"
    /\ Goto("loop", "disc1")
    /\ Log("market")
    /\ UNCHANGED <<last_conn, mt5_lock, mt5_login, session, agent, holds, releases, positions,
                   toClose, attempted, owned, verdict, can_trade>>
    /\ UNCHANGED nonGate

\* "TOUJOURS disconnect apres phase 1", then the two early returns of phase 2
L_Disconnect1 ==
    /\ pc["loop"] = "disc1"
    /\ Disconnect("loop")
    /\ IF can_trade /\ market_data = "ok"
         THEN /\ Goto("loop", "decide")
              /\ Log("disconnect")
              /\ UNCHANGED <<agent, LoopLocals>>
         ELSE NextAgent
    /\ UNCHANGED <<session, positions>>
    /\ UNCHANGED nonGate

\* agent.should_open_trade(market_data): HOLD, a signal, or an exception
L_Decide(o) ==
    /\ pc["loop"] = "decide"
    /\ IF o = "hold"
         THEN NextAgent
         ELSE /\ Goto("loop", IF o = "signal" THEN "exec_connect" ELSE "handler")
              /\ Log("decide")
              /\ UNCHANGED <<agent, LoopLocals>>
    /\ UNCHANGED <<last_conn, mt5_lock, mt5_login, session, holds, releases, positions>>
    /\ UNCHANGED nonGate

\* _process_all_agents: except Exception -> "Securite: toujours disconnect"
L_Handler ==
    /\ pc["loop"] = "handler"
    /\ Disconnect("loop")
    /\ NextAgent
    /\ UNCHANGED <<session, positions>>
    /\ UNCHANGED nonGate

\* _execute_trade: connect_mt5(agent_id)
L_ExecConnect(o) ==
    /\ pc["loop"] = "exec_connect"
    /\ Connect("loop", agent["loop"], o)
    /\ IF o = "ok"
         THEN /\ Goto("loop", "exec_open")
              /\ Log("exec_connect")
              /\ UNCHANGED <<agent, LoopLocals>>
         ELSE NextAgent
    /\ UNCHANGED <<session, positions>>
    /\ UNCHANGED nonGate

\* open_trade: a new position on the logged-in account, comment G13_<agent>
OpenTrade(p, a) == [positions EXCEPT ![p] = [acct |-> mt5_login, tag |-> a]]

\* _execute_trade: open_trade succeeded (ticket saved, agent stamped, positions synced)
L_ExecOpen(p) ==
    /\ pc["loop"] = "exec_open"
    /\ mt5_login # 0
    /\ positions[p] = NoPos
    /\ positions' = OpenTrade(p, agent["loop"])
    /\ Goto("loop", "exec_disc")
    /\ Log("open")
    /\ UNCHANGED <<last_conn, mt5_lock, mt5_login, session, agent, holds, releases, LoopLocals>>
    /\ UNCHANGED nonGate

\* _execute_trade: order rejected, or an exception caught by its except clause
L_ExecFail ==
    /\ pc["loop"] = "exec_open"
    /\ Goto("loop", "exec_disc")
    /\ Log("open_failed")
    /\ UNCHANGED <<last_conn, mt5_lock, mt5_login, session, agent, holds, releases, positions, LoopLocals>>
    /\ UNCHANGED nonGate

\* _execute_trade: disconnect_mt5() (normal path or except path)
L_ExecDisconnect ==
    /\ pc["loop"] = "exec_disc"
    /\ Disconnect("loop")
    /\ NextAgent
    /\ UNCHANGED <<session, positions>>
    /\ UNCHANGED nonGate

\* _run_loop after _process_all_agents: stats and strategist need no broker here; sleep
L_EndTick ==
    /\ pc["loop"] = "agent"
    /\ agent["loop"] \notin Agents
    /\ Goto("loop", "idle")
    /\ agent' = [agent EXCEPT !["loop"] = 0]
    /\ UNCHANGED <<last_conn, mt5_lock, mt5_login, session, holds, releases, positions, LoopLocals, cycleLog>>
    /\ UNCHANGED nonGate

\* _run_strategist -> _apply_mt5_modifications: connect_mt5 for one agent's edits
L_StratConnect(a, o) ==
    /\ pc["loop"] = "agent"
    /\ agent["loop"] \notin Agents
    /\ Connect("loop", a, o)
    /\ Goto("loop", IF o = "ok" THEN "strat_disc" ELSE "idle")
    /\ agent' = [agent EXCEPT !["loop"] = 0]
    /\ UNCHANGED <<session, positions, LoopLocals, cycleLog>>
    /\ UNCHANGED nonGate

\* _apply_mt5_modifications: edits sent, disconnect_mt5() (normal or except path)
L_StratDisconnect ==
    /\ pc["loop"] = "strat_disc"
    /\ Disconnect("loop")
    /\ Goto("loop", "idle")
    /\ UNCHANGED <<session, agent, positions, LoopLocals, cycleLog>>
    /\ UNCHANGED nonGate

\* ------------------------------------------------------------ HTTP handlers
\* a handler that uses the broker (sync, validate, close, status, ...): connect_mt5
H_Connect(a, o) ==
    /\ pc["http"] = "idle"
    /\ Connect("http", a, o)
    /\ Goto("http", IF o = "ok" THEN "h_body" ELSE "idle")
    /\ UNCHANGED <<session, agent, positions, LoopLocals, cycleLog>>
    /\ UNCHANGED nonGate

\* the handler's broker operations between connect and disconnect
H_Body ==
    /\ pc["http"] = "h_body"
    /\ Goto("http", "h_disc")
    /\ UNCHANGED <<last_conn, mt5_lock, mt5_login, session, agent, holds, releases, positions,
                   LoopLocals, cycleLog>>
    /\ UNCHANGED nonGate

\* the handler's disconnect_mt5() (finally clause / end of the success branch)
H_Disconnect ==
    /\ pc["http"] = "h_disc"
    /\ Disconnect("http")
    /\ Goto("http", "idle")
    /\ UNCHANGED <<session, agent, positions, LoopLocals, cycleLog>>
    /\ UNCHANGED nonGate

\* end_session(): an active session becomes stopped
EndSession(s) == IF s = "active" THEN "stopped" ELSE s

H_EndSession ==
    /\ pc["http"] = "idle"
    /\ session = "active"
    /\ session' = EndSession(session)
    /\ UNCHANGED <<last_conn, mt5_lock, mt5_login, pc, agent, holds, releases, positions,
                   LoopLocals, cycleLog>>
    /\ UNCHANGED nonGate

\* start_session(): resume or create, the record ends up active
H_StartSession ==
    /\ pc["http"] = "idle"
    /\ session # "active"
    /\ session' = "active"
    /\ UNCHANGED <<last_conn, mt5_lock, mt5_login, pc, agent, holds, releases, positions,
                   LoopLocals, cycleLog>>
    /\ UNCHANGED nonGate

\* ------------------------------------------------------------------ broker
\* the broker closes a position (SL/TP hit) or the account owner closes it
BrokerClose(p) ==
    /\ positions[p] # NoPos
    /\ positions' = [positions EXCEPT ![p] = NoPos]
    /\ UNCHANGED <<last_conn, mt5_lock, mt5_login, session, pc, agent, holds, releases,
                   LoopLocals, cycleLog>>
    /\ UNCHANGED nonGate

\* the account owner opens a position by hand (no G13 tag)
ManualOpen(p, a) ==
    /\ positions[p] = NoPos
    /\ positions' = [positions EXCEPT ![p] = [acct |-> a, tag |-> 0]]
    /\ UNCHANGED <<last_conn, mt5_lock, mt5_login, session, pc, agent, holds, releases,
                   LoopLocals, cycleLog>>
    /\ UNCHANGED nonGate

\* ------------------------------------------------- Part 1 initial state, steps
InitGate ==
    /\ mt5_lock = FALSE
    /\ mt5_login = 0
    /\ session = "none"
    /\ pc = [t \in Threads |-> "idle"]
    /\ agent = [t \in Threads |-> 0]
    /\ holds = [t \in Threads |-> FALSE]
    /\ releases = [t \in Threads |-> 0]
    /\ positions = [p \in PosIds |-> NoPos]
    /\ toClose = <<>>
    /\ attempted = {}
    /\ owned = {}
    /\ verdict = "none"
    /\ can_trade = FALSE
    /\ market_data = "none"
    /\ cycleLog = <<>>
    /\ last_conn = NoConn

Next ==
    \/ L_WaitSession
    \/ L_TickStart
    \/ L_SkipDisabled
    \/ \E o \in ConnectOutcomes : L_Connect(o)
    \/ \E v \in {"ok", "block", "emergency"} : L_Risk(v)
    \/ L_Phase1Raise
    \/ L_EmergRead
    \/ \E ok \in BOOLEAN : L_EmergClose(ok)
    \/ L_SyncPositions
    \/ L_SyncClosed
    \/ L_EmergDisconnect
    \/ L_Manage
    \/ \E b \in BOOLEAN : L_Eligible(b)
    \/ \E ok \in BOOLEAN : L_Market(ok)
    \/ L_Disconnect1
    \/ \E o \in {"hold", "signal", "raise"} : L_Decide(o)
    \/ L_Handler
    \/ \E o \in ConnectOutcomes : L_ExecConnect(o)
    \/ \E p \in PosIds : L_ExecOpen(p)
    \/ L_ExecFail
    \/ L_ExecDisconnect
    \/ L_EndTick
    \/ \E a \in Agents, o \in ConnectOutcomes : L_StratConnect(a, o)
    \/ L_StratDisconnect
    \/ \E a \in Agents, o \in ConnectOutcomes : H_Connect(a, o)
    \/ H_Body
    \/ H_Disconnect
    \/ H_EndSession
    \/ H_StartSession
    \/ \E p \in PosIds : BrokerClose(p)
    \/ \E p \in PosIds, a \in Agents : ManualOpen(p, a)

\* ------------------------------------------------------------ Part 1 claims
\* C1: at every instant at most one thread is between its own successful
\* connect_mt5 and its own disconnect_mt5 (at most one owner of the Broker Gate).
C1_AtMostOneOwner == Cardinality({t \in Threads : holds[t]}) <= 1

\* C2: every successful connect_mt5 is paired with exactly one disconnect_mt5 by
\* the same thread: a thread that finished its operation (the worker between two
\* agent cycles, a handler that returned) is not left holding the gate, and no
\* thread calls disconnect_mt5 twice after one successful connect_mt5.
C2_AcquireReleasePaired ==
    \A t \in Threads :
        /\ pc[t] \in {"idle", "agent"} => ~holds[t]
        /\ releases[t] <= 1

\* C8 (as stated): whenever the loop worker holds the Broker Gate, or is anywhere
\* inside an agent cycle, session.json exists with status active.
C8_ActsOnlyWhileActive ==
    (holds["loop"] \/ pc["loop"] \notin {"idle", "agent"}) => session = "active"

\* C8 (amended): the worker leaves the tick boundary and starts processing agents
\* only in a state where the session is active; with no session file or with
\* status stopped at that check it stays at the tick boundary (sleeps one tick).
C8_TickStartsOnlyWhenActive ==
    [][pc["loop"] = "idle" /\ session # "active" => pc'["loop"] = "idle"]_vars

C8_Witness == holds["loop"] /\ verdict = "ok" /\ session = "active"

\* C10: once the close loop of an emergency cycle is over, close_trade has been
\* attempted on exactly the positions of the agent's account that carry its tag
\* (all of them, failed closes included, and no other position); the cycle then
\* runs sync_positions, sync_closed_trades and the release in that order and runs
\* no position management, market-data read, decision or trade.
C10_EmergencyClose ==
    verdict = "emergency" =>
        /\ pc["loop"] \in {"sync_pos", "sync_closed", "disc_e"} => attempted = owned
        /\ \A i \in 1..Len(cycleLog) :
               cycleLog[i] \in {"connect", "risk", "read", "close", "sync_positions", "sync_closed"}
        /\ pc["loop"] = "disc_e" =>
               /\ holds["loop"]
               /\ Len(cycleLog) = 5 + Cardinality(attempted)
               /\ SubSeq(cycleLog, 1, 3) = <<"connect", "risk", "read">>
               /\ \A i \in 4..(3 + Cardinality(attempted)) : cycleLog[i] = "close"
               /\ SubSeq(cycleLog, Len(cycleLog) - 1, Len(cycleLog)) = <<"sync_positions", "sync_closed">>

C13_PhasesHoldGate ==
    /\ pc["loop"] \in {"risk", "emerg_read", "emerg_close", "sync_pos", "sync_closed",
                       "manage", "eligible", "market", "disc1", "disc_e"} =>
           /\ holds["loop"]
           /\ mt5_lock
           /\ mt5_login = agent["loop"]
    /\ pc["loop"] = "decide" =>
           /\ ~holds["loop"]
           /\ cycleLog = <<"connect", "risk", "sync_positions", "sync_closed", "manage",
                           "eligible", "market", "disconnect">>
    /\ pc["loop"] = "exec_connect" =>
           /\ ~holds["loop"]
           /\ cycleLog[Len(cycleLog)] = "decide"

\* C14: a connect_mt5 call that returns success = false leaves the caller not
\* holding the gate: after a lock timeout the lock, the owner's hold and the
\* broker session are as they were before the call; after any other failure the
\* lock the call took has been released.
C14_FailedConnectReleases ==
    last_conn.o \notin {"none", "ok"} =>
        /\ last_conn.o = "timeout" =>
               /\ last_conn.lock_before
               /\ last_conn.lock_after
               /\ last_conn.kept
        /\ last_conn.o # "timeout" =>
               /\ ~last_conn.lock_before
               /\ ~last_conn.lock_after

\* the worker's connect_mt5 timed out while an HTTP handler held the gate, and
\* the handler still holds it with its session logged in
C14_Witness ==
    /\ last_conn.o = "timeout"
    /\ last_conn.by = "loop"
    /\ last_conn.owners = {"http"}
    /\ holds["http"]
    /\ mt5_lock
    /\ mt5_login # 0

\* ================================================ Part 2: stop-loss writes
\* Prices are in cents (the symbol's 2 digits); percentages are in thousandths of
\* a percent, so price * pct / 100 is (price * pct) / PctDen cents.
PctDen == 100000

\* DEFAULT_TPSL, and the literals of _manage_single_position
trailing_start_pct == 200
trailing_distance_pct == 100
break_even_pct == 150
be_buffer_pct == 20
wnl_min_gain_pct == 50
default_sl_pct == 500
default_tp_pct == 300

\* prices the market visits, and the values the Strategist may set
Entries == {10500}
Prices == {10440, 10460, 10478, 10479, 10484, 10494, 10500, 10506, 10516, 10521, 10522, 10540, 10560}
SlChoices == {300, 600}
TpChoices == {200, 400}

\* round(x, 2) of a price given as n / d cents; a tie goes either way
RoundDiv(n, d, up) ==
    LET q == n \div d
        r == n % d
    IN IF 2 * r < d THEN q
       ELSE IF 2 * r > d THEN q + 1
       ELSE IF up THEN q + 1 ELSE q

Abs(x) == IF x < 0 THEN 0 - x ELSE x

\* gain_pct >= pct, with gain_pct = (+/-)(price_current - price_open) / price_open * 100
GainAtLeast(type, entry, p, pct) ==
    (IF type = "BUY" THEN p - entry ELSE entry - p) * PctDen >= pct * entry

\* price_current -/+ price_open * (trail_dist_pct / 100), times PctDen
TrailingSl(type, entry, p) ==
    IF type = "BUY" THEN p * PctDen - entry * trailing_distance_pct
    ELSE p * PctDen + entry * trailing_distance_pct

\* price_open +/- price_open * 0.0002, times PctDen
BreakEvenSl(type, entry) ==
    IF type = "BUY" THEN entry * PctDen + entry * be_buffer_pct
    ELSE entry * PctDen - entry * be_buffer_pct

\* "trailing_sl > current_sl" / "trailing_sl < current_sl or current_sl == 0"
TrailingFavourable(type, cand, current_sl) ==
    IF type = "BUY" THEN cand > current_sl * PctDen
    ELSE cand < current_sl * PctDen \/ current_sl = 0

\* the break-even test left out: the rule always writes
BreakEvenFavourable_Always(type, cand, current_sl) == TRUE

\* "current_sl < be_sl" / "current_sl > be_sl or current_sl == 0"
BreakEvenFavourable(type, cand, current_sl) ==
    IF type = "BUY" THEN current_sl * PctDen < cand
    ELSE current_sl * PctDen > cand \/ current_sl = 0

NoSl == [has |-> FALSE, sl |-> 0]

\* new_sl of _manage_single_position: trailing, elif break-even, elif winner-never-loser
ManagerNewSl(type, entry, p, current_sl, trailing_on, be_on, wnl) ==
    IF trailing_on /\ GainAtLeast(type, entry, p, trailing_start_pct)
      THEN IF TrailingFavourable(type, TrailingSl(type, entry, p), current_sl)
             THEN [has |-> TRUE, sl |-> TrailingSl(type, entry, p)] ELSE NoSl
    ELSE IF be_on /\ GainAtLeast(type, entry, p, break_even_pct)
      THEN IF BreakEvenFavourable(type, BreakEvenSl(type, entry), current_sl)
             THEN [has |-> TRUE, sl |-> BreakEvenSl(type, entry)] ELSE NoSl
    ELSE IF wnl /\ GainAtLeast(type, entry, p, wnl_min_gain_pct)
      THEN IF BreakEvenFavourable(type, BreakEvenSl(type, entry), current_sl)
             THEN [has |-> TRUE, sl |-> BreakEvenSl(type, entry)] ELSE NoSl
    ELSE NoSl

\* modify_trade_sl_tp up to order_send: final values (times PctDen) from the
\* arguments or the broker's current ones; no request when both differ from the
\* broker's by less than 0.01; else the request, rounded to the symbol's digits
ModifyRequest(has_sl, new_sl, has_tp, new_tp, up) ==
    LET final_sl == IF has_sl THEN new_sl ELSE b_sl * PctDen
        final_tp == IF has_tp THEN new_tp ELSE b_tp * PctDen
    IN IF ~p_live THEN [sent |-> FALSE, sl |-> b_sl, tp |-> b_tp]
       ELSE IF Abs(final_sl - b_sl * PctDen) < PctDen /\ Abs(final_tp - b_tp * PctDen) < PctDen
         THEN [sent |-> FALSE, sl |-> b_sl, tp |-> b_tp]
       ELSE [sent |-> TRUE, sl |-> RoundDiv(final_sl, PctDen, up), tp |-> RoundDiv(final_tp, PctDen, up)]

\* order_send of a request: the broker takes it (done) or rejects it
SendRequest(by, req, snap, done) ==
    /\ b_sl' = IF req.sent /\ done THEN req.sl ELSE b_sl
    /\ b_tp' = IF req.sent /\ done THEN req.tp ELSE b_tp
    /\ last_req' = IF req.sent
                     THEN [by |-> by, snap |-> snap, before |-> b_sl, after |-> req.sl, done |-> done]
                     ELSE last_req

\* _calculate_sl_tp_pct / _recalculate_sl_tp: round(entry * (1 -/+ pct / 100), 2)
PctPrice(entry, pct, below, up) ==
    IF below THEN RoundDiv(entry * PctDen - entry * pct, PctDen, up)
    ELSE RoundDiv(entry * PctDen + entry * pct, PctDen, up)

\* "Protection trailing" of _recalculate_sl_tp, on the SL the file holds
KeepsCalcSl(type, calc_sl, current_sl) ==
    IF type = "BUY" THEN current_sl <= 0 \/ calc_sl >= current_sl
    ELSE current_sl <= 0 \/ calc_sl <= current_sl

\* _recalculate_sl_tp(position, new_tp_pct, new_sl_pct) on the position of the file
Recalculate(type, entry, fsl, ftp, has_sl, sl_pct, has_tp, tp_pct, up) ==
    LET calc_sl == PctPrice(entry, sl_pct, type = "BUY", up)
        sl_changed == has_sl /\ KeepsCalcSl(type, calc_sl, fsl)
    IN [changed |-> sl_changed \/ has_tp,
        sl |-> IF sl_changed THEN calc_sl ELSE fsl,
        tp |-> IF has_tp THEN PctPrice(entry, tp_pct, type = "SELL", up) ELSE ftp]

\* the broker closes the position when the price reaches its SL or its TP
Hit(type, p, sl, tp) ==
    IF type = "BUY" THEN (sl > 0 /\ p <= sl) \/ (tp > 0 /\ p >= tp)
    ELSE (sl > 0 /\ p >= sl) \/ (tp > 0 /\ p <= tp)

NoReq == [by |-> "none", snap |-> 0, before |-> 0, after |-> 0, done |-> FALSE]

\* _execute_trade: open_trade at the market with the agent's SL/TP, sync_positions
P_Open(type, entry, up) ==
    /\ sl_pc = "cycle"
    /\ ~p_live
    /\ p_type' = type
    /\ p_entry' = entry
    /\ price' = entry
    /\ p_live' = TRUE
    /\ b_sl' = PctPrice(entry, default_sl_pct, type = "BUY", up)
    /\ b_tp' = PctPrice(entry, default_tp_pct, type = "SELL", up)
    /\ f_pos' = [live |-> TRUE, sl |-> PctPrice(entry, default_sl_pct, type = "BUY", up),
                 tp |-> PctPrice(entry, default_tp_pct, type = "SELL", up)]
    /\ last_req' = NoReq
    /\ UNCHANGED <<m_pos, sl_pc, mods>>
    /\ UNCHANGED nonSL

\* the market moves; a price at or beyond the SL or the TP closes the position
P_PriceMove(p) ==
    /\ p_live
    /\ p # price
    /\ price' = p
    /\ p_live' = ~Hit(p_type, p, b_sl, b_tp)
    /\ UNCHANGED <<p_type, p_entry, b_sl, b_tp, f_pos, m_pos, sl_pc, mods, last_req>>
    /\ UNCHANGED nonSL

\* _full_agent_cycle: sync_positions writes the broker's positions to the file
P_SyncPositions ==
    /\ sl_pc = "cycle"
    /\ p_type # "none"
    /\ f_pos' = IF p_live THEN [live |-> TRUE, sl |-> b_sl, tp |-> b_tp]
                ELSE [live |-> FALSE, sl |-> 0, tp |-> 0]
    /\ sl_pc' = "read"
    /\ UNCHANGED <<p_type, p_entry, p_live, price, b_sl, b_tp, m_pos, mods, last_req>>
    /\ UNCHANGED nonSL

\* _manage_positions_connected: read_positions; return when there is no position
P_ManageRead ==
    /\ sl_pc = "read"
    /\ m_pos' = IF p_live THEN [price |-> price, sl |-> b_sl] ELSE [price |-> 0, sl |-> 0]
    /\ sl_pc' = IF p_live THEN "write" ELSE "cycle"
    /\ UNCHANGED <<p_type, p_entry, p_live, price, b_sl, b_tp, f_pos, mods, last_req>>
    /\ UNCHANGED nonSL

\* _manage_single_position on the snapshot, then modify_trade_sl_tp(ticket, new_sl)
P_ManageWrite(trailing_on, be_on, wnl, up, done) ==
    /\ sl_pc = "write"
    /\ LET new_sl == ManagerNewSl(p_type, p_entry, m_pos.price, m_pos.sl, trailing_on, be_on, wnl)
           req == ModifyRequest(TRUE, new_sl.sl, FALSE, 0, up)
       IN IF new_sl.has
            THEN SendRequest("manager", req, m_pos.sl, done)
            ELSE UNCHANGED <<b_sl, b_tp, last_req>>
    /\ sl_pc' = "cycle"
    /\ m_pos' = [price |-> 0, sl |-> 0]
    /\ UNCHANGED <<p_type, p_entry, p_live, price, f_pos, mods>>
    /\ UNCHANGED nonSL

\* _run_strategist: an adjustment changed sl_pct and/or tp_pct;
\* _build_mt5_modifications recalculates the positions of the file
T_Adjust(has_sl, sl_pct, has_tp, tp_pct, up) ==
    /\ sl_pc = "cycle"
    /\ p_type # "none"
    /\ has_sl \/ has_tp
    /\ LET mod == Recalculate(p_type, p_entry, f_pos.sl, f_pos.tp, has_sl, sl_pct, has_tp, tp_pct, up)
       IN IF f_pos.live /\ mod.changed
            THEN /\ mods' = [sl |-> mod.sl, tp |-> mod.tp]
                 /\ sl_pc' = "apply"
            ELSE UNCHANGED <<mods, sl_pc>>
    /\ UNCHANGED <<p_type, p_entry, p_live, price, b_sl, b_tp, f_pos, m_pos, last_req>>
    /\ UNCHANGED nonSL

\* _apply_mt5_modifications: modify_trade_sl_tp(ticket, new_sl, new_tp)
T_Apply(up, done) ==
    /\ sl_pc = "apply"
    /\ SendRequest("strategist",
                   ModifyRequest(TRUE, mods.sl * PctDen, TRUE, mods.tp * PctDen, up), f_pos.sl, done)
    /\ sl_pc' = "cycle"
    /\ mods' = [sl |-> 0, tp |-> 0]
    /\ UNCHANGED <<p_type, p_entry, p_live, price, f_pos, m_pos>>
    /\ UNCHANGED nonSL

InitSL ==
    /\ p_type = "none"
    /\ p_entry = 0
    /\ p_live = FALSE
    /\ price = 0
    /\ b_sl = 0
    /\ b_tp = 0
    /\ f_pos = [live |-> FALSE, sl |-> 0, tp |-> 0]
    /\ m_pos = [price |-> 0, sl |-> 0]
    /\ sl_pc = "cycle"
    /\ mods = [sl |-> 0, tp |-> 0]
    /\ last_req = NoReq

NextSL ==
    \/ \E type \in {"BUY", "SELL"}, entry \in Entries, up \in BOOLEAN : P_Open(type, entry, up)
    \/ \E p \in Prices : P_PriceMove(p)
    \/ P_SyncPositions
    \/ P_ManageRead
    \/ \E trailing_on, be_on, wnl, up, done \in BOOLEAN : P_ManageWrite(trailing_on, be_on, wnl, up, done)
    \/ \E has_sl, has_tp, up \in BOOLEAN, sl_pct \in SlChoices, tp_pct \in TpChoices :
           T_Adjust(has_sl, sl_pct, has_tp, tp_pct, up)
    \/ \E up, done \in BOOLEAN : T_Apply(up, done)

\* ================================ Part 3: adjustments of tp_pct and sl_pct
\* Percentages are in thousandths of a percent (tp_pct 0.3 is 300), the grain of
\* round(x, 3).

\* IAdjust class constants
TP_MIN == 100
TP_MAX == 1000
SL_MIN == 200
SL_MAX == 1000
TP_STEP == 50
SL_STEP == 50
MAX_SL_TP_RATIO == 15             \* 1.5, in tenths
MAX_CHANGE_PCT == 50
MAX_ADJUSTMENTS_PER_HOUR == 4

\* values a batch may ask for, values an operator may store
ReqTp == {50, 300, 1200}
ReqSl == {100, 600}
CfgTp == {300, 500, 1000}
CfgSl == {200, 450, 600}
ManualValues == {0, 1500}

\* round(): which neighbour a tie n / d goes to depends on the binary value of
\* the operand; any other quotient has one rounding
TieChoices(n, d) == IF 2 * (n % d) = d THEN BOOLEAN ELSE {FALSE}

Min2(a, b) == IF a < b THEN a ELSE b

Max2(a, b) == IF a > b THEN a ELSE b

\* max(spec["min"], min(spec["max"], new_value))
Clamp(lo, hi, v) == Max2(lo, Min2(hi, v))

\* the contract on a stored config: both bounds and the ratio
ValidTpSl(tp, sl) ==
    /\ tp >= TP_MIN /\ tp <= TP_MAX
    /\ sl >= SL_MIN /\ sl <= SL_MAX
    /\ sl * 10 <= tp * MAX_SL_TP_RATIO

\* guard-rail A: the SL the batch goes on with, given the TP and SL it aims at
RatioGuard(final_tp, final_sl, up) ==
    IF final_sl * 10 > final_tp * MAX_SL_TP_RATIO
    THEN RoundDiv(final_tp * MAX_SL_TP_RATIO, 10, up)
    ELSE final_sl

\* _is_direction_locked: last is the direction of the newest log entry of the
\* field inside the lock window ("none" when there is none)
IsDirectionLocked(last, current, new_value) ==
    IF current = 0 THEN FALSE
    ELSE /\ last # "none"
         /\ last # (IF new_value > current THEN "up" ELSE "down")

\* guard-rail B: the change is cut to MAX_CHANGE_PCT % of the current value
AmplitudeCap(lo, hi, clamped, current, up) ==
    IF current > 0 /\ Abs(clamped - current) * 100 > current * MAX_CHANGE_PCT
    THEN IF clamped > current
         THEN Clamp(lo, hi, RoundDiv(current * 100 + current * MAX_CHANGE_PCT, 100, up))
         ELSE Clamp(lo, hi, RoundDiv(current * 100 - current * MAX_CHANGE_PCT, 100, up))
    ELSE clamped

\* one pass of the loop over requested_changes: the value the field ends with
ExactValue(lo, hi, new_value, current, last, up) ==
    LET clamped == Clamp(lo, hi, new_value)
        capped == AmplitudeCap(lo, hi, clamped, current, up)
    IN IF clamped = current THEN current
       ELSE IF IsDirectionLocked(last, current, capped) THEN current
       ELSE capped

\* the direction the newest log entry of a field shows after a call
NewDir(last, old, new) ==
    IF new = old THEN last ELSE IF new > old THEN "up" ELSE "down"

Changed(old, new) == IF new = old THEN 0 ELSE 1

\* the entry old -> new is of the opposite sign to the field's newest entry in
\* the lock window
Reverses(last, old, new) ==
    /\ new # old
    /\ last # "none"
    /\ last # (IF new > old THEN "up" ELSE "down")

\* count_this_hour is only compared with MAX_ADJUSTMENTS_PER_HOUR
CountCap(n) == Min2(n, MAX_ADJUSTMENTS_PER_HOUR)

\* _can_adjust
CanAdjust ==
    /\ ~recent_adj
    /\ hour_count < MAX_ADJUSTMENTS_PER_HOUR

\* _adjust_tpsl
AdjustTpsl(current_tp) == Min2(TP_MAX, current_tp + TP_STEP)

\* _reduce_sl
ReduceSl(current_sl) == Max2(SL_MIN, current_sl - SL_STEP)

\* the path of a mutation, kept when it starts from a valid config
Mutation(kind) == IF ValidTpSl(cfg_tp, cfg_sl) THEN kind ELSE "none"

\* what a call leaves behind: the config, the log and _last_adjustment_time
Adjusted(t, kind, new_tp, new_sl) ==
    LET n == Changed(cfg_tp, new_tp) + Changed(cfg_sl, new_sl)
    IN /\ adj_pc[t] = "passed"
       /\ adj_pc' = [adj_pc EXCEPT ![t] = "idle"]
       /\ UNCHANGED ia_adjust_enabled
       /\ rate_broken' = (n > 0 /\ (recent_adj \/ hour_count >= MAX_ADJUSTMENTS_PER_HOUR))
       /\ cfg_tp' = new_tp
       /\ cfg_sl' = new_sl
       /\ last_dir' = [tp |-> NewDir(last_dir.tp, cfg_tp, new_tp),
                       sl |-> NewDir(last_dir.sl, cfg_sl, new_sl)]
       /\ recent_adj' = (recent_adj \/ n > 0)
       /\ hour_count' = CountCap(hour_count + n)
       /\ ops < MaxOps
       /\ ops' = ops + 1
       /\ last_op' = Mutation(kind)
       /\ log_rev' = (Reverses(last_dir.tp, cfg_tp, new_tp) \/ Reverses(last_dir.sl, cfg_sl, new_sl))

\* the test left out: IAdjust is called for every agent
StrategistCalls_Always(enabled) == TRUE

\* "if not agent_cfg.get("ia_adjust_enabled", False): continue", in both modes of
\* _run_strategist and of strategist_execute
StrategistCalls(enabled) == enabled

\* a Strategist run, the worker's _run_strategist or the strategist/execute
\* handler, reaches the agent with the flag set and calls apply_exact_values or
\* auto_adjust, which open with the rate-limit test; a call that fails the test
\* returns at once
A_CanAdjust(t) ==
    /\ adj_pc[t] = "idle"
    /\ StrategistCalls(ia_adjust_enabled)
    /\ CanAdjust
    /\ adj_pc' = [adj_pc EXCEPT ![t] = "passed"]
    /\ UNCHANGED <<cfg_tp, cfg_sl, last_dir, recent_adj, hour_count, ops, last_op,
                   ia_adjust_enabled, rate_broken, log_rev>>
    /\ UNCHANGED nonAdjust

\* a Strategist run reaches the agent with the flag unset: "continue"
A_StrategistSkip(t) ==
    /\ adj_pc[t] = "idle"
    /\ ~StrategistCalls(ia_adjust_enabled)
    /\ last_op # "skipped"
    /\ last_op' = Mutation("skipped")
    /\ UNCHANGED <<cfg_tp, cfg_sl, last_dir, recent_adj, hour_count, ops,
                   ia_adjust_enabled, adj_pc, rate_broken, log_rev>>
    /\ UNCHANGED nonAdjust

\* update_agent_config(agent_id, {"ia_adjust_enabled": enabled})
A_SetEnabled(enabled) ==
    /\ enabled # ia_adjust_enabled
    /\ ia_adjust_enabled' = enabled
    /\ UNCHANGED <<cfg_tp, cfg_sl, last_dir, recent_adj, hour_count, ops, last_op,
                   adj_pc, rate_broken, log_rev>>
    /\ UNCHANGED nonAdjust

\* IAdjust.apply_exact_values with changes = {tp_pct: tp, sl_pct: sl}, a key
\* being present when its has_ flag is set
A_ApplyExact(t, has_tp, tp, has_sl, sl) ==
    /\ \E up_ratio \in TieChoices((IF has_tp THEN tp ELSE cfg_tp) * MAX_SL_TP_RATIO, 10),
          up_tp \in TieChoices(cfg_tp * MAX_CHANGE_PCT, 100),
          up_sl \in TieChoices(cfg_sl * MAX_CHANGE_PCT, 100) :
       LET final_tp == IF has_tp THEN tp ELSE cfg_tp
           final_sl == IF has_sl THEN sl ELSE cfg_sl
           req_sl == RatioGuard(final_tp, final_sl, up_ratio)
           new_tp == IF has_tp
                     THEN ExactValue(TP_MIN, TP_MAX, tp, cfg_tp, last_dir.tp, up_tp)
                     ELSE cfg_tp
           new_sl == IF has_sl
                     THEN ExactValue(SL_MIN, SL_MAX, req_sl, cfg_sl, last_dir.sl, up_sl)
                     ELSE cfg_sl
       IN Adjusted(t, "exact", new_tp, new_sl)
    /\ UNCHANGED nonAdjust

\* IAdjust.auto_adjust with an ADJUST_TPSL and/or a RISK_MANAGEMENT suggestion
A_AutoAdjust(t, adjust_tpsl, risk_management) ==
    /\ Adjusted(t, "rules",
                IF adjust_tpsl THEN AdjustTpsl(cfg_tp) ELSE cfg_tp,
                IF risk_management THEN ReduceSl(cfg_sl) ELSE cfg_sl)
    /\ UNCHANGED nonAdjust

\* IAdjust.manual_adjust(agent_id, "tpsl_config", {tp_pct: tp, sl_pct: sl}):
\* the value is stored as given, and logged under the field "tpsl_config"
A_Manual(tp, sl) ==
    /\ cfg_tp' = tp
    /\ cfg_sl' = sl
    /\ hour_count' = CountCap(hour_count + 1)
    /\ ops < MaxOps
    /\ ops' = ops + 1
    /\ last_op' = Mutation("manual")
    /\ log_rev' = FALSE
    /\ UNCHANGED <<last_dir, recent_adj, ia_adjust_enabled, adj_pc, rate_broken>>
    /\ UNCHANGED nonAdjust

\* the operator saves the agent's tpsl_config from the dashboard
A_Configure(tp, sl) ==
    /\ ValidTpSl(tp, sl)
    /\ cfg_tp' = tp
    /\ cfg_sl' = sl
    /\ ops' = 0
    /\ last_op' = "none"
    /\ log_rev' = FALSE
    /\ UNCHANGED <<last_dir, recent_adj, hour_count, ia_adjust_enabled, adj_pc, rate_broken>>
    /\ UNCHANGED nonAdjust

\* time passes: MIN_ADJUSTMENT_INTERVAL, then the hour, then the lock window
A_Elapse(span) ==
    /\ recent_adj' = FALSE
    /\ hour_count' = IF span = "interval" THEN hour_count ELSE 0
    /\ last_dir' = IF span = "lock" THEN [tp |-> "none", sl |-> "none"] ELSE last_dir
    /\ \/ recent_adj
       \/ span # "interval" /\ hour_count > 0
       \/ span = "lock" /\ last_dir # [tp |-> "none", sl |-> "none"]
    /\ UNCHANGED <<cfg_tp, cfg_sl, ops, last_op, ia_adjust_enabled, adj_pc, rate_broken, log_rev>>
    /\ UNCHANGED nonAdjust

InitAdjust ==
    /\ cfg_tp = default_tp_pct
    /\ cfg_sl = default_sl_pct
    /\ last_dir = [tp |-> "none", sl |-> "none"]
    /\ recent_adj = FALSE
    /\ hour_count = 0
    /\ ops = 0
    /\ last_op = "none"
    /\ ia_adjust_enabled = FALSE
    /\ adj_pc = [t \in Threads |-> "idle"]
    /\ rate_broken = FALSE
    /\ log_rev = FALSE

NextAdjust ==
    \/ \E t \in Threads : A_CanAdjust(t)
    \/ \E t \in Threads : A_StrategistSkip(t)
    \/ \E enabled \in BOOLEAN : A_SetEnabled(enabled)
    \/ \E t \in Threads, has_tp, has_sl \in BOOLEAN :
         \E tp \in (IF has_tp THEN ReqTp ELSE {0}), sl \in (IF has_sl THEN ReqSl ELSE {0}) :
           A_ApplyExact(t, has_tp, tp, has_sl, sl)
    \/ \E t \in Threads, adjust_tpsl, risk_management \in BOOLEAN :
           A_AutoAdjust(t, adjust_tpsl, risk_management)
    \/ \E tp, sl \in ManualValues : A_Manual(tp, sl)
    \/ \E tp \in CfgTp, sl \in CfgSl : A_Configure(tp, sl)
    \/ \E span \in {"interval", "hour", "lock"} : A_Elapse(span)

\* ================================= Part 4: tickets and closed-trades ledger
TicketIds == 1..NumTickets

\* the records' "time" key: closing deals carry increasing times
Rank(k) == CHOOSE i \in 1..Len(deals) : deals[i] = k

\* existing_trades.sort(key=time, reverse=True): a stable sort, latest close first
RECURSIVE InsertDesc(_, _)
InsertDesc(x, s) ==
    IF s = <<>> THEN <<x>>
    ELSE IF Rank(x) > Rank(Head(s)) THEN <<x>> \o s
    ELSE <<Head(s)>> \o InsertDesc(x, Tail(s))

RECURSIVE SortByTimeDesc(_)
SortByTimeDesc(s) ==
    IF s = <<>> THEN <<>>
    ELSE InsertDesc(s[Len(s)], SortByTimeDesc(SubSeq(s, 1, Len(s) - 1)))

\* no run has written the file since the broker or the ledgers last changed
NoQuiet == [by |-> "none", runs |-> 0]

\* {t.get("position_id", t.get("ticket")) for t in existing_trades}
PositionIds(s) == {s[i] : i \in 1..Len(s)}

\* the skip test left out: a recorded ticket is looked up again
AlreadyRecorded_Never(k, seen) == FALSE

\* the skip test kept for open tickets only
AlreadyRecorded_OpenOnly(k, seen) == k \in seen /\ tickets[k] = "open"

\* "if ticket in existing_tickets: continue"
AlreadyRecorded(k, seen) == k \in seen

\* the call left out: the ticket keeps its status
MarkTicketClosed_Never(k) == tickets

\* the broker still holds the position opened under ticket k: it was opened and
\* has no closing deal
BrokerPosition(k) == k <= issued /\ k \notin PositionIds(deals)

\* mark_ticket_closed(ticket): the entry's status becomes closed, if there is one
MarkTicketClosed(k) == IF tickets[k] = "none" THEN tickets ELSE [tickets EXCEPT ![k] = "closed"]

SetS(f, t, v) == [f EXCEPT ![t] = v]

\* the run's locals are gone when it returns
EndRun(t) ==
    /\ s_pc' = SetS(s_pc, t, "idle")
    /\ s_existing' = SetS(s_existing, t, <<>>)
    /\ s_seen' = SetS(s_seen, t, {})
    /\ s_todo' = SetS(s_todo, t, <<>>)

\* sync_closed_trades: load closed_trades/<agent>.json
Y_ReadFile(t) ==
    /\ s_pc[t] = "idle"
    /\ s_pc' = SetS(s_pc, t, "tickets")
    /\ s_existing' = SetS(s_existing, t, closed_file)
    /\ s_seen' = SetS(s_seen, t, PositionIds(closed_file))
    /\ UNCHANGED <<tickets, issued, deals, closed_file, s_todo, wrote, quiet>>
    /\ UNCHANGED nonSync

\* a status filter put on the call: only the open tickets are looked up
SessionTickets_OpenOnly == {k \in TicketIds : tickets[k] = "open"}

\* get_session_tickets(agent_id=agent_id): the agent's tickets of either status
SessionTickets == {k \in TicketIds : tickets[k] # "none"}

\* sync_closed_trades: get_session_tickets(agent_id); nothing to do without tickets
Y_GetTickets(t) ==
    /\ s_pc[t] = "tickets"
    /\ IF SessionTickets = {}
         THEN EndRun(t)
         ELSE /\ s_pc' = SetS(s_pc, t, "loop")
              /\ s_todo' = SetS(s_todo, t, SeqOfSet(SessionTickets))
              /\ UNCHANGED <<s_existing, s_seen>>
    /\ UNCHANGED <<tickets, issued, deals, closed_file, wrote, quiet>>
    /\ UNCHANGED nonSync

\* sync_closed_trades: one turn of "for ticket_entry in session_tickets";
\* answered: mt5.history_deals_get returned the position's deals
Y_Step(t, answered) ==
    /\ s_pc[t] = "loop"
    /\ s_todo[t] # <<>>
    /\ LET k == Head(s_todo[t])
           record == ~AlreadyRecorded(k, s_seen[t]) /\ answered /\ k \in PositionIds(deals)
       IN /\ s_existing' = IF record THEN SetS(s_existing, t, Append(s_existing[t], k)) ELSE s_existing
          /\ s_seen' = IF record THEN SetS(s_seen, t, s_seen[t] \cup {k}) ELSE s_seen
          /\ tickets' = IF record THEN MarkTicketClosed(k) ELSE tickets
    /\ s_todo' = SetS(s_todo, t, Tail(s_todo[t]))
    /\ s_pc' = SetS(s_pc, t, IF Tail(s_todo[t]) = <<>> THEN "write" ELSE "loop")
    /\ UNCHANGED <<issued, deals, closed_file, wrote>>
    /\ quiet' = LET k == Head(s_todo[t])
                    record == ~AlreadyRecorded(k, s_seen[t]) /\ answered /\ k \in PositionIds(deals)
                IN IF record /\ (quiet.by # t \/ k \notin PositionIds(closed_file))
                   THEN NoQuiet ELSE quiet
    /\ UNCHANGED nonSync

\* sync_closed_trades: sort, then json.dump(existing_trades) over the file
Y_Write(t) ==
    /\ s_pc[t] = "write"
    /\ closed_file' = SortByTimeDesc(s_existing[t])
    /\ wrote' = wrote \cup {t}
    /\ quiet' = [by |-> t, runs |-> IF quiet.by = t THEN 2 ELSE 1]
    /\ EndRun(t)
    /\ UNCHANGED <<tickets, issued, deals>>
    /\ UNCHANGED nonSync

\* sync_closed_trades: an exception anywhere in the try block (broker call, file
\* read or write): "except Exception" returns the failure, the file is not written
Y_Abort(t) ==
    /\ s_pc[t] \in {"tickets", "loop", "write"}
    /\ EndRun(t)
    /\ UNCHANGED <<tickets, issued, deals, closed_file, wrote, quiet>>
    /\ UNCHANGED nonSync

\* _execute_trade: open_trade gave a ticket, save_ticket records it as open
Y_SaveTicket ==
    /\ issued < NumTickets
    /\ issued' = issued + 1
    /\ tickets' = [tickets EXCEPT ![issued + 1] = "open"]
    /\ UNCHANGED <<deals, closed_file, s_pc, s_existing, s_seen, s_todo, wrote>>
    /\ quiet' = NoQuiet
    /\ UNCHANGED nonSync

\* the position is closed at the broker (SL, TP, close_trade): a closing deal exists
Y_BrokerClose(k) ==
    /\ k <= issued
    /\ k \notin PositionIds(deals)
    /\ deals' = Append(deals, k)
    /\ UNCHANGED <<tickets, issued, closed_file, s_pc, s_existing, s_seen, s_todo, wrote>>
    /\ quiet' = NoQuiet
    /\ UNCHANGED nonSync

\* _reset_all_data (start_session with force_new, HTTP thread): every
\* closed_trades file is rewritten as []
Y_ResetFiles ==
    /\ s_pc["http"] = "idle"
    /\ s_pc' = SetS(s_pc, "http", "reset")
    /\ closed_file' = <<>>
    /\ UNCHANGED <<tickets, issued, deals, s_existing, s_seen, s_todo, wrote>>
    /\ quiet' = NoQuiet
    /\ UNCHANGED nonSync

\* _reset_all_data: clear_session_tickets()
Y_ResetTickets ==
    /\ s_pc["http"] = "reset"
    /\ s_pc' = SetS(s_pc, "http", "idle")
    /\ tickets' = [k \in TicketIds |-> "none"]
    /\ UNCHANGED <<issued, deals, closed_file, s_existing, s_seen, s_todo, wrote>>
    /\ quiet' = NoQuiet
    /\ UNCHANGED nonSync

InitSync ==
    /\ tickets = [k \in TicketIds |-> "none"]
    /\ issued = 0
    /\ deals = <<>>
    /\ closed_file = <<>>
    /\ s_pc = [t \in Threads |-> "idle"]
    /\ s_existing = [t \in Threads |-> <<>>]
    /\ s_seen = [t \in Threads |-> {}]
    /\ s_todo = [t \in Threads |-> <<>>]
    /\ wrote = {}
    /\ quiet = NoQuiet

NextSync ==
    \/ \E t \in Threads : Y_ReadFile(t)
    \/ \E t \in Threads : Y_GetTickets(t)
    \/ \E t \in Threads, answered \in BOOLEAN : Y_Step(t, answered)
    \/ \E t \in Threads : Y_Write(t)
    \/ \E t \in Threads : Y_Abort(t)
    \/ Y_SaveTicket
    \/ \E k \in TicketIds : Y_BrokerClose(k)
    \/ Y_ResetFiles
    \/ Y_ResetTickets

\* ====================================================== Part 5: Risk Guard
\* risk_config.json, DEFAULT_RISK values, in percent
max_drawdown_pct == 10
max_daily_loss_pct == 5
emergency_close_pct == 15

\* account_info values the broker can report, in account currency
Balances == {0, 9000, 10000}
Equities == {0 - 500, 0, 8400, 8500, 8600, 9000, 9100, 9400, 9500, 9600, 10000, 10500}

\* dict.get(agent_id, balance) on a dict where 0 stands for "no entry"
GetOr(d, a, dflt) == IF d[a] = 0 THEN dflt ELSE d[a]

\* "if agent_id not in <dict> and balance > 0: <dict>[agent_id] = balance"
SetDefault(d, a, bal) == IF d[a] = 0 /\ bal > 0 THEN [d EXCEPT ![a] = bal] ELSE d

\* (ref - equity) / ref * 100 >= pct, for ref > 0
LossAtLeast(ref, equity, pct) == (ref - equity) * 100 >= pct * ref

\* the verdict of _check_global_risk from its locals start_balance, day_balance
\* and the equity; "raise" is the ZeroDivisionError of the daily-loss division
RiskVerdict(start_balance, day_balance, equity) ==
    IF start_balance <= 0 \/ equity <= 0 THEN "ok"
    ELSE IF LossAtLeast(start_balance, equity, emergency_close_pct) THEN "emergency"
    ELSE IF LossAtLeast(start_balance, equity, max_drawdown_pct) THEN "block"
    ELSE IF day_balance = 0 THEN "raise"
    ELSE IF LossAtLeast(day_balance, equity, max_daily_loss_pct) THEN "block"
    ELSE "ok"

\* _risk_blocked after the call: filled on block, emptied on the final ok
Blocked(blocked, a, v, start_balance, equity) ==
    IF v = "block" THEN blocked \cup {a}
    ELSE IF v = "ok" /\ start_balance > 0 /\ equity > 0 THEN blocked \ {a}
    ELSE blocked

\* _check_global_risk(agent_id, account_info); newday: the date changed since the
\* last call (always so on the first call, _current_day being None)
R_Check(a, balance, equity, newday) ==
    LET reset == newday \/ ~day_known
        starts == SetDefault(start_balances, a, balance)
        days0 == IF reset THEN [x \in Agents |-> 0] ELSE day_start_balances
        blocked0 == IF reset THEN {} ELSE risk_blocked
        days == SetDefault(days0, a, balance)
        start_balance == GetOr(starts, a, balance)
        day_balance == GetOr(days, a, balance)
        v == RiskVerdict(start_balance, day_balance, equity)
    IN /\ cycle_out # "pending"
       /\ cycle_out' = "pending"
       /\ UNCHANGED emerg_seen
       /\ start_balances' = starts
       /\ day_start_balances' = days
       /\ day_known' = TRUE
       /\ risk_blocked' = Blocked(blocked0, a, v, start_balance, equity)
       /\ risk_in' = [agent |-> a, equity |-> equity, start |-> start_balance, day |-> day_balance,
                     newday |-> reset]
       /\ risk_out' = v
       /\ UNCHANGED nonRisk

\* the rest of _full_agent_cycle after the verdict v: the emergency branch closes
\* and returns; risk_allows_trading = False (or the exception) leaves can_trade
\* False; else a trade is opened when the agent may trade, the decider gives a
\* signal and the order is filled (opens)
CycleOutcome(v, opens) ==
    IF v = "emergency" THEN "closed"
    ELSE IF v \in {"block", "raise"} THEN "no_trade"
    ELSE IF opens THEN "traded" ELSE "no_trade"

R_CycleRest(opens) ==
    /\ cycle_out = "pending"
    /\ cycle_out' = CycleOutcome(risk_out, opens)
    /\ emerg_seen' = IF risk_out = "emergency" THEN emerg_seen \cup {risk_in.agent} ELSE emerg_seen
    /\ UNCHANGED <<start_balances, day_start_balances, risk_blocked, day_known, risk_in, risk_out>>
    /\ UNCHANGED nonRisk

\* TradingLoop.start(): a new worker object is not created; the dictionaries live
\* as long as the process.  A process restart empties them.
R_Restart ==
    /\ risk_out # "none"
    /\ start_balances' = [x \in Agents |-> 0]
    /\ day_start_balances' = [x \in Agents |-> 0]
    /\ risk_blocked' = {}
    /\ day_known' = FALSE
    /\ risk_in' = [agent |-> 0, equity |-> 0, start |-> 0, day |-> 0, newday |-> FALSE]
    /\ risk_out' = "none"
    /\ cycle_out' = "none"
    /\ emerg_seen' = {}
    /\ UNCHANGED nonRisk

InitRisk ==
    /\ start_balances = [x \in Agents |-> 0]
    /\ day_start_balances = [x \in Agents |-> 0]
    /\ risk_blocked = {}
    /\ day_known = FALSE
    /\ risk_in = [agent |-> 0, equity |-> 0, start |-> 0, day |-> 0, newday |-> FALSE]
    /\ risk_out = "none"
    /\ cycle_out = "none"
    /\ emerg_seen = {}

NextRisk ==
    \/ \E a \in Agents, b \in Balances, e \in Equities, nd \in BOOLEAN : R_Check(a, b, e, nd)
    \/ \E opens \in BOOLEAN : R_CycleRest(opens)
    \/ R_Restart

\* ================== Part 6: session lifecycle and the loop's worker threads
\* balances a caller passes; 0 stands for None (and for 0.0, falsy alike)
InitialBalances == {0, 10000, 12000}

WorkerIds == 1..MaxWorkers

\* get_session_raw() without a readable session.json
NoSession == [id |-> 0, start_time |-> 0, balance_start |-> 0, status |-> "stopped"]

\* the balance written whatever the record holds
ResumeBalance_Overwrite(current, initial_balance) == initial_balance

\* "if initial_balance and not current.get("balance_start")"
ResumeBalance(current, initial_balance) ==
    IF initial_balance # 0 /\ current = 0 THEN initial_balance ELSE current

\* the thread is gone after an exception
AfterException_Dies == "exited"

\* _run_loop: "except Exception" prints, sleeps LOOP_INTERVAL and loops
AfterException == "caught"

\* TradingLoop.start(): "if self.is_running: return"
StartCreates(running) == ~running

Called(op, bal, ok) == [op |-> op, bal |-> bal, ok |-> ok, flip |-> ~s_last.flip]

\* start_session(initial_balance, force_new); archive_ok: archive_session wrote
\* its report (it catches its own exceptions and the reset goes on)
S_StartSession(initial_balance, force_new, archive_ok) ==
    /\ IF ~force_new /\ sess.id # 0
         THEN /\ sess' = [sess EXCEPT !.status = "active",
                                      !.balance_start = ResumeBalance(@, initial_balance)]
              /\ s_last' = Called("resume", initial_balance, TRUE)
              /\ UNCHANGED <<created, ledger, archives>>
         ELSE /\ created < MaxSessions
              /\ archives' = IF sess.id # 0 /\ ledger /\ archive_ok
                              THEN archives \cup {sess.id} ELSE archives
              /\ ledger' = FALSE
              /\ created' = created + 1
              /\ sess' = [id |-> created + 1, start_time |-> created + 1,
                          balance_start |-> initial_balance, status |-> "active"]
              /\ s_last' = Called("new", initial_balance, archive_ok)
    /\ UNCHANGED <<is_running, workers, raised>>
    /\ UNCHANGED nonSession

\* end_session(): needs an active session; the archive is not blocking
S_EndSession(archive_ok) ==
    /\ sess.id # 0
    /\ sess.status = "active"
    /\ archives' = IF archive_ok THEN archives \cup {sess.id} ELSE archives
    /\ sess' = [sess EXCEPT !.status = "stopped"]
    /\ s_last' = Called("end", 0, archive_ok)
    /\ UNCHANGED <<created, ledger, is_running, workers, raised>>
    /\ UNCHANGED nonSession

\* trading_stop ending the session as well
K_Stop_EndsSession ==
    /\ is_running' = FALSE
    /\ sess' = [sess EXCEPT !.status = "stopped"]
    /\ s_last' = Called("stop", 0, TRUE)
    /\ UNCHANGED <<created, ledger, archives, workers, raised>>
    /\ UNCHANGED nonSession

\* the threads that have not returned from _run_loop
Live == {w \in WorkerIds : workers[w] \notin {"none", "exited"}}

\* TradingLoop.start(); the new thread takes the first free slot
K_Start ==
    /\ StartCreates(is_running)
    /\ \E w \in WorkerIds \ Live :
          /\ \A v \in WorkerIds \ Live : w <= v
          /\ workers' = [workers EXCEPT ![w] = "check"]
          /\ raised' = [raised EXCEPT ![w] = FALSE]
    /\ is_running' = TRUE
    /\ s_last' = Called("start", 0, TRUE)
    /\ UNCHANGED <<sess, created, ledger, archives>>
    /\ UNCHANGED nonSession

\* trading_stop -> TradingLoop.stop()
K_Stop ==
    /\ is_running' = FALSE
    /\ s_last' = Called("stop", 0, TRUE)
    /\ UNCHANGED <<sess, created, ledger, archives, workers, raised>>
    /\ UNCHANGED nonSession

\* _run_loop: "while self.is_running"
W_Check(w) ==
    /\ workers[w] = "check"
    /\ workers' = [workers EXCEPT ![w] = IF is_running THEN "tick" ELSE "exited"]
    /\ UNCHANGED <<sess, created, ledger, archives, is_running, raised, s_last>>
    /\ UNCHANGED nonSession

\* _run_loop: the body of one iteration; raises: an exception came out of the
\* session check, _process_all_agents, _update_stats or _run_strategist;
\* records: the tick wrote a trade, a decision or a ticket
W_Tick(w, raises, records) ==
    /\ workers[w] = "tick"
    /\ workers' = [workers EXCEPT ![w] = IF raises THEN AfterException ELSE "sleep"]
    /\ raised' = [raised EXCEPT ![w] = @ \/ raises]
    /\ ledger' = (ledger \/ (records /\ sess.id # 0 /\ sess.status = "active"))
    /\ UNCHANGED <<sess, created, archives, is_running, s_last>>
    /\ UNCHANGED nonSession

\* time.sleep(LOOP_INTERVAL) returns
W_Wake(w) ==
    /\ workers[w] \in {"sleep", "caught"}
    /\ workers' = [workers EXCEPT ![w] = "check"]
    /\ UNCHANGED <<sess, created, ledger, archives, is_running, raised, s_last>>
    /\ UNCHANGED nonSession

InitSession ==
    /\ sess = NoSession
    /\ created = 0
    /\ ledger = FALSE
    /\ archives = {}
    /\ is_running = FALSE
    /\ workers = [w \in WorkerIds |-> "none"]
    /\ raised = [w \in WorkerIds |-> FALSE]
    /\ s_last = [op |-> "none", bal |-> 0, ok |-> TRUE, flip |-> FALSE]

NextSession ==
    \/ \E b \in InitialBalances, force_new, archive_ok \in BOOLEAN :
          S_StartSession(b, force_new, archive_ok)
    \/ \E archive_ok \in BOOLEAN : S_EndSession(archive_ok)
    \/ K_Start
    \/ K_Stop
    \/ \E w \in WorkerIds : W_Check(w)
    \/ \E w \in WorkerIds, raises, records \in BOOLEAN : W_Tick(w, raises, records)
    \/ \E w \in WorkerIds : W_Wake(w)

\* start(), stop() and the threads alone
NextLoop ==
    \/ K_Start
    \/ K_Stop
    \/ \E w \in WorkerIds : W_Check(w)
    \/ \E w \in WorkerIds, raises, records \in BOOLEAN : W_Tick(w, raises, records)
    \/ \E w \in WorkerIds : W_Wake(w)

\* the scheduler runs every live thread
LoopFairness == \A w \in WorkerIds :
    /\ WF_vars(W_Check(w))
    /\ WF_vars(\E raises, records \in BOOLEAN : W_Tick(w, raises, records))
    /\ WF_vars(W_Wake(w))

\* ================================== Part 7: one agent's evaluation
\* can_trade without the max_positions test
CanTrade_NoMax(enabled, count, max_positions, last, clock, cooldown) ==
    IF ~enabled THEN FALSE
    ELSE IF last = -1 THEN TRUE
    ELSE clock - last >= cooldown

\* BaseAgent.can_trade
CanTrade(enabled, count, max_positions, last, clock, cooldown) ==
    IF ~enabled THEN FALSE
    ELSE IF count >= max_positions THEN FALSE
    ELSE IF last = -1 THEN TRUE
    ELSE clock - last >= cooldown

\* the stamp written whatever open_trade returned
Stamped_Always(result, last, clock) == clock

\* _execute_trade: mark_trade_executed() under "if trade_result["success"]"
Stamped(result, last, clock) == IF result = "opened" THEN clock ELSE last

NoDecision == [action |-> "none", executed |-> FALSE]

Stepped(op, enabled, max_positions, cooldown, can, out) ==
    [op |-> op, enabled |-> enabled, max_positions |-> max_positions,
     cooldown |-> cooldown, can |-> can, out |-> out, flip |-> ~e_last.flip]

\* sync_positions: the file is rewritten from the broker's positions, or left
\* as it is when read_positions fails (the caller does not look at the result)
SyncedCount(ok, file_count, broker_count) == IF ok THEN broker_count ELSE file_count

\* time passes
E_Clock ==
    /\ now < MaxClock
    /\ now' = now + 1
    /\ UNCHANGED <<last_trade_time, open_count, broker_open, e_pc, n_decisions,
                   last_decision, n_tickets, e_last>>
    /\ UNCHANGED nonEval

\* the broker closes a position of the agent (SL or TP hit)
E_BrokerClose ==
    /\ broker_open > 0
    /\ broker_open' = broker_open - 1
    /\ UNCHANGED <<now, last_trade_time, open_count, e_pc, n_decisions,
                   last_decision, n_tickets, e_last>>
    /\ UNCHANGED nonEval

\* _full_agent_cycle: sync_positions(agent_id) in phase 1
E_SyncPositions(ok) ==
    /\ e_pc = "idle"
    /\ e_pc' = "synced"
    /\ open_count' = SyncedCount(ok, open_count, broker_open)
    /\ UNCHANGED <<now, last_trade_time, broker_open, n_decisions, last_decision,
                   n_tickets, e_last>>
    /\ UNCHANGED nonEval

\* should_open_trade up to call_ai: can_trade() on the reloaded config, then
\* the price / fibo levels / spread tests (usable)
E_CanTrade(enabled, max_positions, cooldown, usable) ==
    /\ e_pc = "synced"
    /\ LET can == CanTrade(enabled, open_count, max_positions,
                           last_trade_time, now, cooldown)
       IN /\ e_last' = Stepped("can_trade", enabled, max_positions, cooldown, can,
                               IF usable THEN "usable" ELSE "unusable")
          /\ e_pc' = IF can /\ usable /\ n_decisions < MaxRecords
                     THEN "decide" ELSE "idle"
    /\ UNCHANGED <<now, last_trade_time, open_count, broker_open, n_decisions,
                   last_decision, n_tickets>>
    /\ UNCHANGED nonEval

\* should_open_trade from call_ai on; answer: what call_ai and parse_decision
\* made of the decider's reply ("timeout" and "http_error": call_ai returned None)
E_Decide(answer) ==
    /\ e_pc = "decide"
    /\ e_last' = [e_last EXCEPT !.op = "decide", !.out = answer, !.flip = ~@]
    /\ IF answer \in {"timeout", "http_error"}
         THEN /\ e_pc' = "idle"
              /\ UNCHANGED <<n_decisions, last_decision>>
         ELSE /\ n_decisions' = n_decisions + 1
              /\ last_decision' = [action |-> answer,
                                   executed |-> answer \in {"BUY", "SELL"}]
              /\ e_pc' = IF answer = "HOLD" THEN "idle" ELSE "exec"
    /\ UNCHANGED <<now, last_trade_time, open_count, broker_open, n_tickets>>
    /\ UNCHANGED nonEval

\* _execute_trade; result: "no_connect", "rejected" (open_trade returned
\* success false) or "opened"; synced: the sync_positions after the open
\* rewrote the file
E_Execute(result, synced) ==
    /\ e_pc = "exec"
    /\ result = "opened" => n_tickets < MaxRecords /\ broker_open <= MaxOpen
    /\ result # "opened" => ~synced
    /\ e_last' = [e_last EXCEPT !.op = "exec", !.out = result, !.flip = ~@]
    /\ last_trade_time' = Stamped(result, last_trade_time, now)
    /\ n_tickets' = IF result = "opened" THEN n_tickets + 1 ELSE n_tickets
    /\ broker_open' = IF result = "opened" THEN broker_open + 1 ELSE broker_open
    /\ open_count' = SyncedCount(synced, open_count, broker_open')
    /\ e_pc' = "idle"
    /\ UNCHANGED <<now, n_decisions, last_decision>>
    /\ UNCHANGED nonEval

InitEval ==
    /\ now = 0
    /\ last_trade_time = -1
    /\ open_count = 0
    /\ broker_open = 0
    /\ e_pc = "idle"
    /\ n_decisions = 0
    /\ last_decision = NoDecision
    /\ n_tickets = 0
    /\ e_last = [op |-> "none", enabled |-> FALSE, max_positions |-> 0,
                 cooldown |-> 1, can |-> FALSE, out |-> "none", flip |-> FALSE]

NextEval ==
    \/ E_Clock
    \/ E_BrokerClose
    \/ \E ok \in BOOLEAN : E_SyncPositions(ok)
    \/ \E enabled, usable \in BOOLEAN, max_positions \in 0..MaxOpen,
          cooldown \in 1..MaxClock :
          E_CanTrade(enabled, max_positions, cooldown, usable)
    \/ \E answer \in {"BUY", "SELL", "HOLD", "timeout", "http_error"} : E_Decide(answer)
    \/ \E result \in {"no_connect", "rejected", "opened"}, synced \in BOOLEAN :
          E_Execute(result, synced)

\* ================================== Part 8: the writers of config/agents.json
DefaultConfig == [enabled |-> TRUE, tp_pct |-> 300]

\* _save_agent_config: all_configs[agent_id] = config, on the file as read
SavedConfigs(all_configs, a, config) == [all_configs EXCEPT ![a] = config]

\* toggle_agent: configs[agent_id]["enabled"] = enabled, on the file as read
ToggledConfigs(configs, a, enabled) == [configs EXCEPT ![a].enabled = enabled]

\* apply_exact_values: config = self._load_agent_config(agent_id)
G_Load(a) ==
    /\ g_pc = "idle"
    /\ g_pc' = "loaded"
    /\ g_agent' = a
    /\ g_config' = agents_json[a]
    /\ UNCHANGED <<agents_json, g_all, h_pc, h_req, h_all, lost>>
    /\ UNCHANGED nonConf

\* the new value is set in the copy; _save_agent_config reads agents.json
G_SaveRead(tp) ==
    /\ g_pc = "loaded"
    /\ tp # g_config.tp_pct
    /\ g_pc' = "saving"
    /\ g_config' = [g_config EXCEPT !.tp_pct = tp]
    /\ g_all' = agents_json
    /\ UNCHANGED <<agents_json, g_agent, h_pc, h_req, h_all, lost>>
    /\ UNCHANGED nonConf

\* _save_agent_config writes agents.json (the run's locals are dropped)
G_SaveWrite ==
    /\ g_pc = "saving"
    /\ g_pc' = "idle"
    /\ agents_json' = SavedConfigs(g_all, g_agent, g_config)
    /\ lost' = (lost \/ agents_json' # [agents_json EXCEPT ![g_agent].tp_pct = g_config.tp_pct])
    /\ g_agent' = 1
    /\ g_config' = DefaultConfig
    /\ g_all' = [a \in Agents |-> DefaultConfig]
    /\ UNCHANGED <<h_pc, h_req, h_all>>
    /\ UNCHANGED nonConf

\* toggle_agent (update_agent_config alike) reads agents.json
H_ConfigRead(a, enabled) ==
    /\ h_pc = "idle"
    /\ enabled # agents_json[a].enabled
    /\ h_pc' = "read"
    /\ h_req' = [agent |-> a, enabled |-> enabled]
    /\ h_all' = agents_json
    /\ UNCHANGED <<agents_json, g_pc, g_agent, g_config, g_all, lost>>
    /\ UNCHANGED nonConf

\* toggle_agent writes agents.json
H_ConfigWrite ==
    /\ h_pc = "read"
    /\ h_pc' = "idle"
    /\ agents_json' = ToggledConfigs(h_all, h_req.agent, h_req.enabled)
    /\ lost' = (lost \/ agents_json' # [agents_json EXCEPT ![h_req.agent].enabled = h_req.enabled])
    /\ h_req' = [agent |-> 1, enabled |-> TRUE]
    /\ h_all' = [a \in Agents |-> DefaultConfig]
    /\ UNCHANGED <<g_pc, g_agent, g_config, g_all>>
    /\ UNCHANGED nonConf

InitConf ==
    /\ agents_json = [a \in Agents |-> DefaultConfig]
    /\ g_pc = "idle"
    /\ g_agent = 1
    /\ g_config = DefaultConfig
    /\ g_all = [a \in Agents |-> DefaultConfig]
    /\ h_pc = "idle"
    /\ h_req = [agent |-> 1, enabled |-> TRUE]
    /\ h_all = [a \in Agents |-> DefaultConfig]
    /\ lost = FALSE

NextConf ==
    \/ \E a \in Agents : G_Load(a)
    \/ \E tp \in {t \in CfgTp : t <= DefaultConfig.tp_pct + 200} : G_SaveRead(tp)
    \/ G_SaveWrite
    \/ \E a \in Agents, enabled \in BOOLEAN : H_ConfigRead(a, enabled)
    \/ H_ConfigWrite

\* ================================== Part 9: the volume of an order
\* _execute_trade: max(volume_min, round(int(raw_volume / step) * step, 8)) when
\* the symbol has a step > 0, the raw volume otherwise
SentVolume(raw, sym) ==
    IF sym.step > 0 THEN Max2(sym.min, (raw \div sym.step) * sym.step) ELSE raw

\* the broker's settings of the symbol (volume_step, volume_min, volume_max)
V_Symbol(step, min, max) ==
    /\ min <= max
    /\ v_sym' = [step |-> step, min |-> min, max |-> max]
    /\ v_sym' # v_sym
    /\ UNCHANGED <<v_raw, v_sent>>
    /\ UNCHANGED nonVol

\* _execute_trade up to open_trade(volume=volume)
V_Send(raw) ==
    /\ v_raw' = raw
    /\ v_sent' = SentVolume(raw, v_sym)
    /\ UNCHANGED v_sym
    /\ UNCHANGED nonVol

InitVolume ==
    /\ v_sym = [step |-> 1, min |-> 1, max |-> MaxVolume]
    /\ v_raw = 0
    /\ v_sent = -1

NextVolume ==
    \/ \E step \in {0, 1, 10}, min \in {1, 10}, max \in {50, MaxVolume} :
          V_Symbol(step, min, max)
    \/ \E raw \in 0..MaxVolume : V_Send(raw)

\* ==================================================================== Part 10
\* The Strategist's rewrite of live positions: open_positions/<agent>.json as
\* sync_positions writes it, and the SL/TP edits _build_mt5_modifications emits.
\* One broker account shared by the agents and by manual trading.

\* a broker position slot: closed, or open with the agent of its comment (0: no G13 tag)
NoBrokerPos == [open |-> FALSE, tag |-> 0]

\* read_positions(agent_id): mt5.positions_get() without filter, every open position
ReadPositions == {p \in BrokerPos : x_pos[p].open}

\* sync_positions(agent_id): the file is rewritten with what read_positions returned,
\* and left as it was when read_positions failed
SyncedFile(ok, file) == IF ok THEN ReadPositions ELSE file

\* _load_open_positions(agent_id): the whole list of open_positions/<agent>.json
LoadOpenPositions(a) == x_file[a]

\* _build_mt5_modifications: one edit per loaded position whose SL or TP changes
BuildModifications(a, changed) == {p \in LoadOpenPositions(a) : p \in changed}

\* open_trade by the loop for agent a (comment G13_<a>), then sync_positions(a)
M_Execute(p, a, ok) ==
    /\ ~x_pos[p].open
    /\ x_pos' = [x_pos EXCEPT ![p] = [open |-> TRUE, tag |-> a]]
    /\ x_file' = [x_file EXCEPT ![a] = IF ok THEN ReadPositions \cup {p} ELSE @]
    /\ UNCHANGED x_mods
    /\ UNCHANGED nonMods

\* a position opened by hand or by another program on the same account
M_ManualOpen(p) ==
    /\ ~x_pos[p].open
    /\ x_pos' = [x_pos EXCEPT ![p] = [open |-> TRUE, tag |-> 0]]
    /\ UNCHANGED <<x_file, x_mods>>
    /\ UNCHANGED nonMods

\* the broker closes a position (SL, TP, manual close)
M_BrokerClose(p) ==
    /\ x_pos[p].open
    /\ x_pos' = [x_pos EXCEPT ![p] = NoBrokerPos]
    /\ UNCHANGED <<x_file, x_mods>>
    /\ UNCHANGED nonMods

\* sync_positions(agent_id) in phase 1 of the agent's cycle
M_SyncPositions(a, ok) ==
    /\ x_file' = [x_file EXCEPT ![a] = SyncedFile(ok, @)]
    /\ UNCHANGED <<x_pos, x_mods>>
    /\ UNCHANGED nonMods

\* apply_exact_values / apply_quick_rule for agent a: the edits handed to
\* _apply_mt5_modifications
M_Adjust(a, changed) ==
    /\ x_mods' = [agent |-> a, tickets |-> BuildModifications(a, changed),
                  flip |-> ~x_mods.flip]
    /\ UNCHANGED <<x_pos, x_file>>
    /\ UNCHANGED nonMods

InitMods ==
    /\ x_pos = [p \in BrokerPos |-> NoBrokerPos]
    /\ x_file = [a \in Agents |-> {}]
    /\ x_mods = [agent |-> 0, tickets |-> {}, flip |-> FALSE]

NextMods ==
    \/ \E p \in BrokerPos, a \in Agents, ok \in BOOLEAN : M_Execute(p, a, ok)
    \/ \E p \in BrokerPos : M_ManualOpen(p)
    \/ \E p \in BrokerPos : M_BrokerClose(p)
    \/ \E a \in Agents, ok \in BOOLEAN : M_SyncPositions(a, ok)
    \/ \E a \in Agents, changed \in SUBSET BrokerPos : M_Adjust(a, changed)

\* ==================================================================== Part 11
\* _execute_trade and session_tickets.json: the order of open_trade, save_ticket
\* and disconnect_mt5, next to the session reset that clears the ticket file.

NoTicket == [status |-> "none", agent |-> 0]

\* save_ticket(agent_id, ticket, ...): appended with status "open" unless the
\* ticket number is already in the file
SaveTicket(file, ticket, a) ==
    IF file[ticket] = NoTicket
      THEN [file EXCEPT ![ticket] = [status |-> "open", agent |-> a]]
      ELSE file

\* clear_session_tickets(): the file rewritten as []
ClearSessionTickets == [t \in Orders |-> NoTicket]

\* _execute_trade: connect_mt5(agent_id) succeeded
Q_Connect(a) ==
    /\ q_pc = "idle"
    /\ ~q_lock
    /\ q_lock' = TRUE
    /\ q_pc' = "connected"
    /\ q_agent' = a
    /\ UNCHANGED <<q_ticket, q_broker, q_tickets>>
    /\ UNCHANGED nonTickets

\* open_trade(...): success with a new ticket, or rejection
Q_OpenTrade(t, ok) ==
    /\ q_pc = "connected"
    /\ IF ok
         THEN /\ q_broker[t] = 0
              /\ q_tickets[t] = NoTicket
              /\ q_broker' = [q_broker EXCEPT ![t] = q_agent]
              /\ q_ticket' = t
              /\ q_pc' = "opened"
         ELSE /\ q_pc' = "closing"
              /\ UNCHANGED <<q_broker, q_ticket>>
    /\ UNCHANGED <<q_lock, q_agent, q_tickets>>
    /\ UNCHANGED nonTickets

\* if ticket: save_ticket(...); mark_trade_executed(); sync_positions(agent_id).
\* written = FALSE: _save_tickets raises (open / json.dump), caught by the except
\* clause of _execute_trade
Q_SaveTicket(written) ==
    /\ q_pc = "opened"
    /\ q_tickets' = IF written THEN SaveTicket(q_tickets, q_ticket, q_agent) ELSE q_tickets
    /\ q_pc' = "closing"
    /\ UNCHANGED <<q_lock, q_agent, q_ticket, q_broker>>
    /\ UNCHANGED nonTickets

\* disconnect_mt5() on the normal path or in the except clause
Q_Disconnect ==
    /\ q_pc = "closing"
    /\ q_lock' = FALSE
    /\ q_pc' = "idle"
    /\ q_agent' = 0
    /\ q_ticket' = 0
    /\ UNCHANGED <<q_broker, q_tickets>>
    /\ UNCHANGED nonTickets

\* POST /api/session/new -> start_session(force_new=True) -> _reset_all_data:
\* clear_session_tickets(); the broker's positions are not touched
Q_Reset ==
    /\ q_tickets' = ClearSessionTickets
    /\ UNCHANGED <<q_pc, q_lock, q_agent, q_ticket, q_broker>>
    /\ UNCHANGED nonTickets

\* the broker closes a position; sync_closed_trades then marks its ticket closed
Q_BrokerClose(t) ==
    /\ q_pc = "idle"
    /\ q_broker[t] # 0
    /\ q_broker' = [q_broker EXCEPT ![t] = 0]
    /\ q_tickets' = IF q_tickets[t] = NoTicket THEN q_tickets
                    ELSE [q_tickets EXCEPT ![t].status = "closed"]
    /\ UNCHANGED <<q_pc, q_lock, q_agent, q_ticket>>
    /\ UNCHANGED nonTickets

InitTickets ==
    /\ q_pc = "idle"
    /\ q_lock = FALSE
    /\ q_agent = 0
    /\ q_ticket = 0
    /\ q_broker = [t \in Orders |-> 0]
    /\ q_tickets = ClearSessionTickets

NextTickets ==
    \/ \E a \in Agents : Q_Connect(a)
    \/ \E t \in Orders, ok \in BOOLEAN : Q_OpenTrade(t, ok)
    \/ \E written \in BOOLEAN : Q_SaveTicket(written)
    \/ Q_Disconnect
    \/ Q_Reset
    \/ \E t \in Orders : Q_BrokerClose(t)

\* ---------------------------------------------------------- specifications
Init ==
    /\ InitGate
    /\ InitSL
    /\ InitAdjust
    /\ InitSync
    /\ InitRisk
    /\ InitSession
    /\ InitEval
    /\ InitConf
    /\ InitVolume
    /\ InitMods
    /\ InitTickets

Spec == Init /\ [][Next]_vars

SpecSL == Init /\ [][NextSL]_vars

SpecAdjust == Init /\ [][NextAdjust]_vars

SpecSync == Init /\ [][NextSync]_vars

\* the worker's cycle keeps running and its broker calls and file accesses do not
\* fail for ever: a new run is started, a run gets past each turn of its loop,
\* and a run that has found ticket k closed goes on through each later turn and
\* through the write
SyncFairness ==
    /\ WF_vars(Y_ReadFile("loop"))
    /\ SF_vars(Y_GetTickets("loop"))
    /\ SF_vars(Y_Write("loop"))
    /\ \A n \in TicketIds :
           SF_vars((\E answered \in BOOLEAN : Y_Step("loop", answered)) /\ Len(s_todo["loop"]) = n)
    /\ \A k \in TicketIds : \A n \in TicketIds :
           SF_vars(/\ \E answered \in BOOLEAN : Y_Step("loop", answered)
                   /\ Len(s_todo["loop"]) = n
                   /\ k \in s_seen'["loop"])
    /\ \A k \in TicketIds :
           SF_vars(Y_Write("loop") /\ k \in PositionIds(s_existing["loop"]))

SpecSyncFair == Init /\ [][NextSync]_vars /\ SyncFairness

SpecRisk == Init /\ [][NextRisk]_vars

SpecSession == Init /\ [][NextSession]_vars

SpecLoopFair == Init /\ [][NextLoop]_vars /\ LoopFairness

SpecEval == Init /\ [][NextEval]_vars

SpecConf == Init /\ [][NextConf]_vars

SpecVolume == Init /\ [][NextVolume]_vars

SpecMods == Init /\ [][NextMods]_vars

SpecTickets == Init /\ [][NextTickets]_vars

\* ------------------------------------------------------------ Part 2 claims
\* C3: every SL request the Position Manager sends is strictly favourable against
\* the SL it read for the position in this tick, which is the SL the broker holds:
\* strictly greater for BUY; strictly less, or the SL was 0/unset, for SELL.  A
\* candidate that is not strictly favourable leads to no request.
C3_ManagerWritesFavourable ==
    last_req.by = "manager" =>
        /\ last_req.snap = last_req.before
        /\ IF p_type = "BUY" THEN last_req.after > last_req.snap
           ELSE last_req.after < last_req.snap \/ last_req.snap = 0

\* the manager has moved an SL that was already set, on a SELL position (after a
\* BUY one has been closed), by a request the broker took
C3_Witness ==
    /\ last_req.by = "manager"
    /\ last_req.done
    /\ last_req.snap > 0
    /\ p_type = "SELL"
    /\ b_sl = last_req.after

\* C4: no SL request the broker takes, from the Position Manager or from a
\* Strategist live-position rewrite, leaves the SL less favourable than the one the
\* broker held when it was sent: never lower for BUY; never higher, nor removed,
\* for SELL once set.
C4_SlNeverRetreats ==
    (last_req.by # "none" /\ last_req.done) =>
        IF p_type = "BUY" THEN last_req.after >= last_req.before
        ELSE last_req.before = 0 \/ (last_req.after <= last_req.before /\ last_req.after > 0)

\* ------------------------------------------------------------ Part 3 claims
\* C5: after every mutation of tp_pct or sl_pct (exact batch, rules fallback or
\* manual) that started from a config inside the bounds, the stored config has
\* sl_pct <= 1.5 * tp_pct, tp_pct in [0.1, 1.0] and sl_pct in [0.2, 1.0].
C5_StoredConfigValid ==
    last_op # "none" => ValidTpSl(cfg_tp, cfg_sl)

\* C15: no Strategist run, in exact-value or in rules-fallback mode, logs for a
\* field a change of the opposite sign to a logged change of that field less than
\* 4 h old.
C15_NoReversalInWindow == ~log_rev

\* C16: no Strategist run, the worker's or the strategist/execute handler's,
\* commits adjustments for the agent less than 15 min after the agent's previous
\* committed adjustments, nor when the agent's log already holds 4 entries of the
\* last hour.
C16_RateLimited == ~rate_broken

\* C17: an exact-value batch applied to a valid stored config commits, for tp_pct
\* and for sl_pct, a value inside the field's bounds that differs from the stored
\* one by at most MAX_CHANGE_PCT percent of the stored one.
C17_AmplitudeBounded ==
    [][(last_op' = "exact" /\ ops' = ops + 1) =>
           /\ 100 * (Max2(cfg_tp, cfg_tp') - Min2(cfg_tp, cfg_tp')) <= MAX_CHANGE_PCT * cfg_tp
           /\ 100 * (Max2(cfg_sl, cfg_sl') - Min2(cfg_sl, cfg_sl')) <= MAX_CHANGE_PCT * cfg_sl
           /\ cfg_tp' >= TP_MIN /\ cfg_tp' <= TP_MAX
           /\ cfg_sl' >= SL_MIN /\ cfg_sl' <= SL_MAX]_vars

C6_ClosedTicketHasRecord ==
    (\A t \in Threads : s_pc[t] = "idle") =>
        \A k \in TicketIds : tickets[k] = "closed" => k \in PositionIds(closed_file)

\* C7: the agent's closed-trades file never holds two records with the same
\* position_id, whatever the interleaving of the worker's and the HTTP handler's
\* sync_closed_trades runs.
C7_NoDuplicateRecord ==
    \A i, j \in 1..Len(closed_file) : closed_file[i] = closed_file[j] => i = j

\* both threads have written the file, and one of them is about to write a list
\* that holds a position_id the file already has
C7_Witness ==
    /\ wrote = Threads
    /\ Len(closed_file) >= 2
    /\ \E t \in Threads :
           /\ s_pc[t] = "write"
           /\ PositionIds(s_existing[t]) \cap PositionIds(closed_file) # {}
           /\ PositionIds(s_existing[t]) # PositionIds(closed_file)

\* C19: a session ticket is marked closed only if its position has a closing deal
\* at the broker, and while the worker's runs go on, every session ticket whose
\* position has a closing deal gets, as long as the session is not reset, a record
\* in the closed-trades file with the ticket marked closed.
C19_ClosedIngested ==
    /\ [](\A k \in TicketIds : tickets[k] = "closed" => k \in PositionIds(deals))
    /\ \A k \in TicketIds :
           (tickets[k] # "none" /\ k \in PositionIds(deals))
               ~> (tickets[k] = "none" \/ (tickets[k] = "closed" /\ k \in PositionIds(closed_file)))

\* two positions were closed at the broker before one run of the worker recorded
\* both
C19_Witness ==
    /\ closed_file = <<2, 1>>
    /\ tickets = <<"closed", "closed">>
    /\ wrote = {"loop"}
    /\ \A t \in Threads : s_pc[t] = "idle"

\* C21: a run of sync_closed_trades that follows a completed run of the same
\* caller, with no change of the broker's deals or answers and no other write of
\* the ledgers in between, leaves the closed-trades file (records and order) and
\* the session tickets as the first run left them.
C21_SecondRunChangesNothing ==
    [][\A t \in Threads :
           quiet.by = t /\ quiet'.by = t => closed_file' = closed_file /\ tickets' = tickets]_vars

\* the worker has run twice in a row over two recorded trades
C21_Witness ==
    /\ quiet = [by |-> "loop", runs |-> 2]
    /\ closed_file = <<2, 1>>
    /\ tickets = <<"closed", "closed">>
    /\ \A t \in Threads : s_pc[t] = "idle"

C20_OpenTicketBacked ==
    \A k \in TicketIds :
        /\ tickets[k] = "open" => BrokerPosition(k) \/ k \in PositionIds(closed_file)
        /\ ~(BrokerPosition(k) /\ k \in PositionIds(closed_file))

\* C20, amended: an open ticket has no ClosedTrade, and either the broker holds
\* its position or the position has a closing deal at the broker that no sync has
\* recorded yet; no id has both a broker position and a ClosedTrade.
C20_OpenTicketAccounted ==
    \A k \in TicketIds :
        /\ tickets[k] = "open" =>
               /\ k \notin PositionIds(closed_file)
               /\ BrokerPosition(k) \/ k \in PositionIds(deals)
        /\ ~(BrokerPosition(k) /\ k \in PositionIds(closed_file))

\* ticket 1 is recorded and closed, ticket 2 is open with its position closed at
\* the broker and not recorded yet
C20_Witness ==
    /\ tickets = <<"closed", "open">>
    /\ closed_file = <<1>>
    /\ ~BrokerPosition(2)
    /\ 2 \in PositionIds(deals)

\* ------------------------------------------------------------ Part 5 claims
\* C9: for every equity and every positive session-start and day-start balance the
\* check returns EmergencyClose when (session_start - equity) / session_start >=
\* emergency_close_pct; otherwise Block when that drawdown >= max_drawdown_pct or
\* the daily loss >= max_daily_loss_pct; otherwise Ok.
C9_RiskVerdict ==
    (risk_out # "none" /\ risk_in.start > 0 /\ risk_in.day > 0) =>
        risk_out =
            IF (risk_in.start - risk_in.equity) * 100 >= emergency_close_pct * risk_in.start
              THEN "emergency"
            ELSE IF \/ (risk_in.start - risk_in.equity) * 100 >= max_drawdown_pct * risk_in.start
                    \/ (risk_in.day - risk_in.equity) * 100 >= max_daily_loss_pct * risk_in.day
              THEN "block"
            ELSE "ok"

\* C11: a cycle opens a trade only under the verdict ok; and once an emergency
\* close has run for an agent, every cycle of that agent whose equity is at or
\* below the emergency threshold against the session-start balance (day rollovers
\* included) takes the emergency branch again: it closes and opens nothing.
C11_BlockedAfterEmergency ==
    cycle_out \notin {"none", "pending"} =>
        /\ cycle_out = "traded" => risk_out = "ok"
        /\ ( /\ risk_in.agent \in emerg_seen
             /\ risk_in.start > 0
             /\ LossAtLeast(risk_in.start, risk_in.equity, emergency_close_pct) )
           => cycle_out = "closed"

\* ============================================================ Part 6 claims
\* C22: Start (resume) on an existing session marks it active, writes
\* balance_start only when the record had none, and leaves the id, the
\* start_time, the session's data and the archives as they were; the same
\* resume applied right after itself changes nothing in the record.
C22_ResumeKeepsSession ==
    [][s_last' # s_last /\ s_last'.op = "resume" =>
          /\ sess'.status = "active"
          /\ sess'.id = sess.id
          /\ sess'.start_time = sess.start_time
          /\ sess'.balance_start =
                 IF sess.balance_start = 0 THEN s_last'.bal ELSE sess.balance_start
          /\ ledger' = ledger
          /\ archives' = archives
          /\ created' = created
          /\ (s_last.op = "resume" /\ s_last.bal = s_last'.bal => sess' = sess)]_vars

\* a resume with another balance came back on a session that has data and a balance
C22_Witness ==
    /\ s_last.op = "resume"
    /\ s_last.bal = 12000
    /\ sess = [id |-> 1, start_time |-> 1, balance_start |-> 10000, status |-> "active"]
    /\ ledger

\* C24: End session archives the session and sets its status to stopped
\* without touching is_running or the threads; Stop trading only clears
\* is_running and leaves the session record, its data and the archives as
\* they were; a resume that follows a Stop keeps the session id and its data.
C24_EndAndStopSeparate ==
    [][/\ s_last' # s_last /\ s_last'.op = "end" =>
            /\ sess' = [sess EXCEPT !.status = "stopped"]
            /\ (s_last'.ok => sess.id \in archives')
            /\ is_running' = is_running
            /\ workers' = workers
            /\ ledger' = ledger
       /\ s_last' # s_last /\ s_last'.op = "stop" =>
            /\ ~is_running'
            /\ sess' = sess
            /\ ledger' = ledger
            /\ archives' = archives
            /\ workers' = workers
       /\ s_last.op = "stop" /\ s_last' # s_last /\ s_last'.op = "resume" =>
            /\ sess'.id = sess.id
            /\ sess'.start_time = sess.start_time
            /\ ledger' = ledger]_vars

\* trading was stopped while the session was active, and resumed
C24_Witness ==
    /\ s_last.op = "resume"
    /\ sess.id = 1
    /\ sess.status = "active"
    /\ ledger
    /\ ~is_running
    /\ 1 \notin archives

\* C28: at most one thread is executing _run_loop, whatever the sequence of
\* start() and stop() calls.
C28_SingleWorker == Cardinality(Live) <= 1

\* C29: an exception inside a tick does not end the thread: it is caught,
\* the thread sleeps and checks is_running again, so a thread that caught an
\* exception starts a next tick unless is_running was cleared.
C29_ExceptionSurvived ==
    /\ [][\A w \in WorkerIds : workers[w] = "tick" => workers'[w] # "exited"]_vars
    /\ \A w \in WorkerIds :
          workers[w] = "caught" ~> (workers[w] = "tick" \/ ~is_running)

\* a thread that caught an exception is in a later tick
C29_Witness == \E w \in WorkerIds : raised[w] /\ workers[w] = "tick" /\ is_running

\* ============================================================ Part 7 claims
\* C25: can_trade returns true exactly when the agent is enabled, the count of
\* its open positions is below max_positions, and either no trade was made yet
\* or the cooldown has elapsed since last_trade_time.
C25_CanTradeIff ==
    [][e_last' # e_last /\ e_last'.op = "can_trade" =>
          (e_last'.can <=>
              /\ e_last'.enabled
              /\ open_count < e_last'.max_positions
              /\ (last_trade_time = -1 \/ now - last_trade_time >= e_last'.cooldown))]_vars

\* an enabled agent at max_positions, its cooldown elapsed, was refused
C25_Witness ==
    /\ e_last.op = "can_trade"
    /\ ~e_last.can
    /\ e_last.enabled
    /\ open_count = e_last.max_positions
    /\ last_trade_time # -1
    /\ now - last_trade_time >= e_last.cooldown

\* C26: an order the broker rejects leaves last_trade_time and the session
\* tickets as they were; last_trade_time is written only by an execution
\* whose order was opened.
C26_RejectedLeavesNoTrace ==
    [][/\ e_last' # e_last /\ e_last'.op = "exec" /\ e_last'.out = "rejected" =>
            /\ last_trade_time' = last_trade_time
            /\ n_tickets' = n_tickets
            /\ e_pc' = "idle"
       /\ last_trade_time' # last_trade_time =>
            /\ e_last'.op = "exec"
            /\ e_last'.out = "opened"
            /\ n_tickets' = n_tickets + 1]_vars

\* a first order was rejected: no stamp, no ticket, the decision is on file
C26_Witness ==
    /\ e_last.op = "exec"
    /\ e_last.out = "rejected"
    /\ last_trade_time = -1
    /\ n_tickets = 0
    /\ n_decisions = 1
    /\ now = 1

\* C27: every evaluation that called the decider adds exactly one decision
\* record; after a timeout or an HTTP error the record is a HOLD with
\* executed false and no signal is returned.
C27_DecisionAlwaysLogged ==
    [][e_pc = "decide" /\ e_pc' # "decide" =>
          /\ n_decisions' = n_decisions + 1
          /\ (e_last'.out \in {"timeout", "http_error"} =>
                 /\ last_decision' = [action |-> "HOLD", executed |-> FALSE]
                 /\ e_pc' = "idle")]_vars

\* ============================================================ Part 5 claims (2)
\* C30: after a risk check that returns Block the agent is in the blocked set,
\* after a risk check that passes it is not; the first check of a new day
\* empties the day-start balances and the blocked set of all other agents and
\* keeps the session-start balances.
C30_BlockedSetFollowsVerdict ==
    [][cycle_out # "pending" /\ cycle_out' = "pending" =>
          LET a == risk_in'.agent
          IN /\ risk_out' = "block" => a \in risk_blocked'
             /\ risk_out' = "ok" => a \notin risk_blocked'
             /\ risk_in'.newday =>
                   /\ \A x \in Agents \ {a} :
                         /\ day_start_balances'[x] = 0
                         /\ x \notin risk_blocked'
                         /\ start_balances'[x] = start_balances[x]
                   /\ (start_balances[a] # 0 => start_balances'[a] = start_balances[a])]_vars


\* C36: the loop never opens a trade for an agent that already owns
\* max_positions open positions at the broker.
C36_NeverOverMaxPositions ==
    [][e_last' # e_last /\ e_last'.op = "exec" /\ e_last'.out = "opened" =>
          broker_open < e_last.max_positions]_vars

\* ============================================================ Part 8 claims
\* C31: no update of agents.json is lost: a writer's save changes the file by
\* its own update and nothing else, so the file holds what every completed
\* writer asked for.
C31_NoLostUpdate == ~lost

\* ============================================================ Part 2 claims (2)
\* C32: the edit the Strategist's rewrite emits for a position never carries
\* an SL that retreats from the SL the position currently holds: when the SL
\* computed from the new sl_pct would retreat, the edit keeps the held SL.
C32_EditKeepsHeldSl ==
    [][sl_pc = "cycle" /\ sl_pc' = "apply" /\ p_live /\ b_sl > 0 =>
          IF p_type = "BUY" THEN mods'.sl >= b_sl ELSE mods'.sl <= b_sl]_vars

\* ============================================================ Part 9 claims
\* C33: with a volume step > 0 the volume sent with an order lies between the
\* symbol's volume_min and volume_max.
C33_VolumeInLimits ==
    v_sent # -1 /\ v_sym.step > 0 /\ v_sent = SentVolume(v_raw, v_sym) =>
        v_sym.min <= v_sent /\ v_sent <= v_sym.max


\* ============================================================ Part 4 claims (2)
\* C35: once a session reset and the runs in flight have completed, every
\* record of closed_trades belongs to a ticket of the session's ledger: no
\* closed trade of the previous session is left in the new session's files.
C35_CleanAfterReset ==
    (\A t \in Threads : s_pc[t] = "idle") =>
        \A k \in PositionIds(closed_file) : tickets[k] # "none"

\* ============================================================ Part 6 claims (2)
\* C34: whenever start_session resets ledgers that hold recorded data, a
\* report of the session was written to history/ beforehand.
C34_ResetArchivesFirst ==
    [][ledger /\ ~ledger' => sess.id # 0 /\ sess.id \in archives']_vars

\* =========================================================== Part 10 claims
\* C37: the Strategist's live-position rewrite emits SL/TP edits only for
\* currently open positions of the adjusted agent, i.e. positions whose comment
\* carries G13_<agent>; a position of the same account without the agent's tag
\* is never edited by it.
C37_EditsOnlyOwnPositions ==
    [][x_mods' # x_mods =>
          \A p \in x_mods'.tickets : x_pos[p].open /\ x_pos[p].tag = x_mods'.agent]_vars

\* =========================================================== Part 11 claims
\* C38: every trade the loop opens has its ticket in session_tickets.json with
\* status open and its agent before the gate is released for that execution:
\* whenever the gate is free, each position the loop opened and the broker still
\* holds has its session ticket.
C38_TicketBeforeRelease ==
    ~q_lock => \A t \in Orders :
                  q_broker[t] # 0 => q_tickets[t] = [status |-> "open", agent |-> q_broker[t]]

\* ======================================================= Part 1 claims (3)
\* C39: on a Block verdict the agent's cycle still runs sync_positions,
\* sync_closed_trades and position management, in that order and in that same
\* cycle; only the market-data read, the decision and the trade are skipped: the
\* cycle ends at the disconnect of phase 1 with can_trade false and no market data.
C39_BlockStillManages ==
    verdict = "block" =>
        /\ pc["loop"] \in {"sync_pos", "sync_closed", "manage", "eligible", "disc1"}
        /\ ~can_trade
        /\ market_data = "none"
        /\ pc["loop"] = "disc1" =>
               /\ Len(cycleLog) = 6
               /\ SubSeq(cycleLog, 1, 5) =
                      <<"connect", "risk", "sync_positions", "sync_closed", "manage">>
               /\ cycleLog[6] \in {"eligible", "raise"}

\* a blocked cycle at its final disconnect, the agent holding an open position
C39_Witness ==
    /\ verdict = "block"
    /\ pc["loop"] = "disc1"
    /\ cycleLog = <<"connect", "risk", "sync_positions", "sync_closed", "manage", "eligible">>
    /\ \E p \in PosIds : positions[p].tag = agent["loop"]

====
